---------------------------- MODULE Spec2Model ----------------------------
(***************************************************************************)
(* Model of stellar/tess_stars2px_mod.py (MonoTools): the focal plane      *)
(* geometry model Levine_FPG, the pointing catalog                         *)
(* TESS_Spacecraft_Pointing_Data, the MAST archive searches and            *)
(* SectFromCoords.                                                         *)
(*                                                                         *)
(* Numbers.  np.double values are modelled in decimal fixed point: a       *)
(* dimensionless value, a length in mm and an angle in degrees v are the   *)
(* integer v * S (S = 10^6); pixel coordinates p are the integer p * PX    *)
(* (PX = 10^4).  An angle in radians is modelled by the pair of its sine   *)
(* and cosine (record [s, c], both scaled by S): deg2rad looks the pair up *)
(* in TrigTable, np.sin and np.cos read a field, and the inverse           *)
(* functions np.arcsin / np.arctan2 build the pair from the ratio they are *)
(* given.  An angle "in degrees" that the code obtained by dividing such a *)
(* radian value by deg2rad keeps the pair representation.                  *)
(***************************************************************************)
EXTENDS Integers, Sequences, FiniteSets, TLC

\* Python None; optional values are None or a record, tuple or array
None == <<>>

\* "no exception raised"
NoExc == "none"

\* a local variable: e is evaluated once and bound to the parameter of F
With(e, F(_)) == F(e)

\* ---------------------------------------------------------------------
\* Fixed-point arithmetic (np.double)
\* ---------------------------------------------------------------------
S == 1000000

B == 1000

PX == 10000

Abs(x) == IF x < 0 THEN -x ELSE x

\* a * b for S-scaled b (result in the scale of a); split so that no
\* intermediate product leaves the 32-bit range
MulS(a, b) ==
  LET ah == a \div B
      al == a % B
      bh == b \div B
      bl == b % B
  IN  ah * bh + ((ah * bl + al * bh + ((al * bl) \div B)) \div B)

DivPos(a, b, scale, base) ==
  LET q0 == a \div b
      r1 == (a % b) * base
      q1 == r1 \div b
      r2 == (r1 % b) * (scale \div base)
      q2 == r2 \div b
  IN  q0 * scale + q1 * (scale \div base) + q2

\* a / b of two values of the same scale, as an S-scaled value
DivS(a, b) == IF b < 0 THEN DivPos(-a, -b, S, B) ELSE DivPos(a, b, S, B)

\* a / b of two lengths, as a PX-scaled pixel count
DivPX(a, b) == IF b < 0 THEN DivPos(-a, -b, PX, 100) ELSE DivPos(a, b, PX, 100)

RECURSIVE Bisect(_, _, _)
Bisect(x, lo, hi) ==
  IF hi - lo <= 1 THEN lo
  ELSE LET mid == (lo + hi) \div 2
       IN  IF MulS(mid, mid) <= x THEN Bisect(x, mid, hi) ELSE Bisect(x, lo, mid)

\* np.sqrt of an S-scaled value in [0, 4]
SqrtS(x) == Bisect(x, 0, 2 * S + 1)

\* np.sin / np.cos of the angles (in degrees * S) the program is run on
TrigTable(x) ==
  CASE x = -168948300 -> <<-191695, -981455>> [] x = -161062200 -> <<-324542, -945871>>
    [] x = -157169800 -> <<-388001, -921659>> [] x = -146961600 -> <<-545201, -838305>>
    [] x = -139566500 -> <<-648565, -761159>> [] x = -137846800 -> <<-671115, -741353>>
    [] x = -90000000 -> <<-1000000, 0>> [] x = -89976802 -> <<-1000000, 405>>
    [] x = -89889085 -> <<-999998, 1936>> [] x = -80469100 -> <<-986196, 165579>>
    [] x = -76396900 -> <<-971948, 235195>> [] x = -76328100 -> <<-971665, 236362>>
    [] x = -75125600 -> <<-966491, 256701>> [] x = -72426500 -> <<-953330, 301929>>
    [] x = -67830700 -> <<-926073, 377345>> [] x = -65536900 -> <<-910228, 414107>>
    [] x = -64853100 -> <<-905221, 424941>> [] x = -63005600 -> <<-891051, 453903>>
    [] x = -57372500 -> <<-842194, 539175>> [] x = -54816500 -> <<-817311, 576197>>
    [] x = -54016000 -> <<-809181, 587559>> [] x = -52829600 -> <<-796842, 604188>>
    [] x = -47751200 -> <<-740232, 672351>> [] x = -45304400 -> <<-710853, 703340>>
    [] x = -44259000 -> <<-697903, 716192>> [] x = -43317800 -> <<-686044, 727560>>
    [] x = -39687100 -> <<-638595, 769543>> [] x = -37737000 -> <<-612038, 790828>>
    [] x = -36642000 -> <<-596813, 802380>> [] x = -36022035 -> <<-588096, 808791>>
    [] x = -35783500 -> <<-584724, 811232>> [] x = -33779000 -> <<-555991, 831188>>
    [] x = -32634400 -> <<-539276, 842129>> [] x = -31934900 -> <<-528955, 848650>>
    [] x = -31395700 -> <<-520946, 853590>> [] x = -30784800 -> <<-511815, 859096>>
    [] x = -30583900 -> <<-508800, 860885>> [] x = -12017260 -> <<-208206, 978085>>
    [] x = -10000000 -> <<-173648, 984808>> [] x = -1000000 -> <<-17452, 999848>>
    [] x = -500000 -> <<-8727, 999962>> [] x = -179412 -> <<-3131, 999995>>
    [] x = -24851 -> <<-434, 1000000>> [] x = -24359 -> <<-425, 1000000>>
    [] x = -24280 -> <<-424, 1000000>> [] x = -15464 -> <<-270, 1000000>>
    [] x = -6624 -> <<-116, 1000000>> [] x = -6464 -> <<-113, 1000000>>
    [] x = 0 -> <<0, 1000000>> [] x = 298 -> <<5, 1000000>>
    [] x = 1488 -> <<26, 1000000>> [] x = 30756 -> <<537, 1000000>>
    [] x = 66596 -> <<1162, 999999>> [] x = 101588 -> <<1773, 999998>>
    [] x = 500000 -> <<8727, 999962>> [] x = 603800 -> <<10538, 999944>>
    [] x = 1000000 -> <<17452, 999848>> [] x = 1363300 -> <<23792, 999717>>
    [] x = 4463100 -> <<77817, 996968>> [] x = 10000000 -> <<173648, 984808>>
    [] x = 12000000 -> <<207912, 978148>> [] x = 12007750 -> <<208044, 978119>>
    [] x = 12500000 -> <<216440, 976296>> [] x = 13552400 -> <<234335, 972156>>
    [] x = 16110300 -> <<277487, 960729>> [] x = 16557100 -> <<284971, 958536>>
    [] x = 16808400 -> <<289172, 957277>> [] x = 18401400 -> <<315672, 948868>>
    [] x = 18919000 -> <<324231, 945978>> [] x = 19646300 -> <<336213, 941786>>
    [] x = 20470700 -> <<349728, 936851>> [] x = 24690900 -> <<417723, 908575>>
    [] x = 25431100 -> <<429425, 903102>> [] x = 26022700 -> <<438727, 898620>>
    [] x = 27599400 -> <<463287, 886208>> [] x = 32232900 -> <<533362, 845887>>
    [] x = 32575400 -> <<538409, 842684>> [] x = 34083700 -> <<560403, 828220>>
    [] x = 35978116 -> <<587476, 809241>> [] x = 36000000 -> <<587785, 809017>>
    [] x = 36269400 -> <<591583, 806244>> [] x = 36313800 -> <<592207, 805786>>
    [] x = 38356400 -> <<620551, 784166>> [] x = 40300800 -> <<646800, 762659>>
    [] x = 40545300 -> <<650049, 759892>> [] x = 40648100 -> <<651411, 758725>>
    [] x = 40827600 -> <<653785, 756680>> [] x = 41831500 -> <<666942, 745109>>
    [] x = 41923900 -> <<668143, 744033>> [] x = 41968600 -> <<668723, 743511>>
    [] x = 42050500 -> <<669785, 742555>> [] x = 42737600 -> <<678642, 734469>>
    [] x = 43807400 -> <<692236, 721671>> [] x = 45000000 -> <<707107, 707107>>
    [] x = 53743400 -> <<806376, 591403>> [] x = 55007000 -> <<819222, 573476>>
    [] x = 55427700 -> <<823411, 567446>> [] x = 57635700 -> <<844662, 535301>>
    [] x = 57845600 -> <<846617, 532203>> [] x = 60202600 -> <<867788, 496935>>
    [] x = 61563700 -> <<879347, 476181>> [] x = 61938300 -> <<882442, 470422>>
    [] x = 62475600 -> <<886814, 462126>> [] x = 63118100 -> <<891940, 452153>>
    [] x = 64067100 -> <<899307, 437318>> [] x = 65192400 -> <<907722, 419572>>
    [] x = 66142200 -> <<914552, 404468>> [] x = 67957500 -> <<926906, 375294>>
    [] x = 69900000 -> <<939094, 343660>> [] x = 70000000 -> <<939693, 342020>>
    [] x = 73538200 -> <<959009, 283376>> [] x = 75252000 -> <<967055, 254568>>
    [] x = 76234300 -> <<971277, 237952>> [] x = 77189100 -> <<975107, 221734>>
    [] x = 77500000 -> <<976296, 216440>> [] x = 79469900 -> <<983159, 182752>>
    [] x = 80000000 -> <<984808, 173648>> [] x = 84291200 -> <<995040, 99473>>
    [] x = 89900000 -> <<999998, 1745>> [] x = 90000000 -> <<1000000, 0>>
    [] x = 90046500 -> <<1000000, -812>> [] x = 90048315 -> <<1000000, -843>>
    [] x = 92009600 -> <<999385, -35067>> [] x = 96599600 -> <<993374, -114930>>
    [] x = 100530100 -> <<983159, -182752>> [] x = 110255900 -> <<938156, -346214>>
    [] x = 115295100 -> <<904119, -427281>> [] x = 124572300 -> <<823411, -567446>>
    [] x = 128115600 -> <<786767, -617250>> [] x = 129386700 -> <<772881, -634551>>
    [] x = 133203500 -> <<728927, -684592>> [] x = 137478400 -> <<675868, -737023>>
    [] x = 137846800 -> <<671115, -741353>> [] x = 138031400 -> <<668723, -743511>>
    [] x = 138076100 -> <<668143, -744033>> [] x = 138168500 -> <<666942, -745109>>
    [] x = 139172400 -> <<653785, -756680>> [] x = 139351900 -> <<651411, -758725>>
    [] x = 139454700 -> <<650049, -759892>> [] x = 139566500 -> <<648565, -761159>>
    [] x = 140203000 -> <<640069, -768317>> [] x = 143730600 -> <<591583, -806244>>
    [] x = 145493900 -> <<566494, -824066>> [] x = 145907100 -> <<560536, -828130>>
    [] x = 145916300 -> <<560403, -828220>> [] x = 146961600 -> <<545201, -838305>>
    [] x = 147767100 -> <<533362, -845887>> [] x = 147955900 -> <<530572, -847640>>
    [] x = 150949700 -> <<485577, -874194>> [] x = 152400600 -> <<463287, -886208>>
    [] x = 153977300 -> <<438727, -898620>> [] x = 155309100 -> <<417723, -908575>>
    [] x = 157169800 -> <<388001, -921659>> [] x = 158766600 -> <<362168, -932113>>
    [] x = 160353700 -> <<336213, -941786>> [] x = 161062200 -> <<324542, -945871>>
    [] x = 161598600 -> <<315672, -948868>> [] x = 163191600 -> <<289172, -957277>>
    [] x = 165047500 -> <<258018, -966140>> [] x = 166447600 -> <<234335, -972156>>
    [] x = 168948300 -> <<191695, -981455>> [] x = 170254000 -> <<169281, -985568>>
    [] x = 171373700 -> <<149989, -988688>> [] x = 171795100 -> <<142714, -989764>>
    [] x = 175536900 -> <<77817, -996968>> [] x = 178636700 -> <<23792, -999717>>
    [] x = 179396200 -> <<10538, -999944>> [] x = 179968217 -> <<555, -1000000>>
    [] x = 179980833 -> <<335, -1000000>> [] x = 179993948 -> <<106, -1000000>>
    [] x = 180000000 -> <<0, -1000000>> [] x = 180010890 -> <<-190, -1000000>>
    [] x = 181363300 -> <<-23792, -999717>> [] x = 184463100 -> <<-77817, -996968>>
    [] x = 188626300 -> <<-149989, -988688>> [] x = 189124700 -> <<-158584, -987346>>
    [] x = 193552400 -> <<-234335, -972156>> [] x = 195717600 -> <<-270896, -962609>>
    [] x = 196808400 -> <<-289172, -957277>> [] x = 197100800 -> <<-294054, -955789>>
    [] x = 198401400 -> <<-315672, -948868>> [] x = 200470700 -> <<-349728, -936851>>
    [] x = 201233400 -> <<-362168, -932113>> [] x = 204690900 -> <<-417723, -908575>>
    [] x = 205431100 -> <<-429425, -903102>> [] x = 206022700 -> <<-438727, -898620>>
    [] x = 207599400 -> <<-463287, -886208>> [] x = 212044100 -> <<-530572, -847640>>
    [] x = 212575400 -> <<-538409, -842684>> [] x = 214083700 -> <<-560403, -828220>>
    [] x = 214506100 -> <<-566494, -824066>> [] x = 216269400 -> <<-591583, -806244>>
    [] x = 217287900 -> <<-605820, -795601>> [] x = 219797000 -> <<-640069, -768317>>
    [] x = 220300800 -> <<-646800, -762659>> [] x = 220648100 -> <<-651411, -758725>>
    [] x = 220827600 -> <<-653785, -756680>> [] x = 221831500 -> <<-666942, -745109>>
    [] x = 221923900 -> <<-668143, -744033>> [] x = 222050500 -> <<-669785, -742555>>
    [] x = 222521600 -> <<-675868, -737023>> [] x = 222737600 -> <<-678642, -734469>>
    [] x = 229588500 -> <<-761408, -648273>> [] x = 242198100 -> <<-884566, -466416>>
    [] x = 261451600 -> <<-988891, -148645>> [] x = 265609800 -> <<-997066, -76548>>
    [] x = 270000000 -> <<-1000000, 0>> [] x = 270138100 -> <<-999997, 2410>>
    [] x = 276716900 -> <<-993136, 116964>> [] x = 280398500 -> <<-983576, 180493>>
    [] x = 280530100 -> <<-983159, 182752>> [] x = 282442700 -> <<-976512, 215463>>
    [] x = 298667100 -> <<-877422, 479720>> [] x = 304572300 -> <<-823411, 567446>>
    [] x = 317262400 -> <<-678642, 734469>> [] x = 317478400 -> <<-675868, 737023>>
    [] x = 317846800 -> <<-671115, 741353>> [] x = 317949500 -> <<-669785, 742555>>
    [] x = 318031400 -> <<-668723, 743511>> [] x = 319454700 -> <<-650049, 759892>>
    [] x = 319566500 -> <<-648565, 761159>> [] x = 319699200 -> <<-646800, 762659>>
    [] x = 320203000 -> <<-640069, 768317>> [] x = 325493900 -> <<-566494, 824066>>
    [] x = 326852500 -> <<-546796, 837266>> [] x = 326961600 -> <<-545201, 838305>>
    [] x = 327424600 -> <<-538409, 842684>> [] x = 327767100 -> <<-533362, 845887>>
    [] x = 327955900 -> <<-530572, 847640>> [] x = 334568900 -> <<-429425, 903102>>
    [] x = 337169800 -> <<-388001, 921659>> [] x = 338766600 -> <<-362168, 932113>>
    [] x = 339529300 -> <<-349728, 936851>> [] x = 340353700 -> <<-336213, 941786>>
    [] x = 341062200 -> <<-324542, 945871>> [] x = 348948300 -> <<-191695, 981455>>
    [] x = 351238100 -> <<-152329, 988330>> [] x = 351373700 -> <<-149989, 988688>>
    [] x = 352684400 -> <<-127335, 991860>> [] x = 357294400 -> <<-47204, 998885>>
    [] x = 359396200 -> <<-10538, 999944>>

\* deg2rad * x : the angle x (degrees * S) as a radian value (sine, cosine)
deg2rad(x) == With(TrigTable(x), LAMBDA p : [s |-> p[1], c |-> p[2]])

\* np.pi/2.0 - a
HalfPiMinus(a) == [s |-> a.c, c |-> a.s]

\* a + np.pi
PlusPi(a) == [s |-> -a.s, c |-> -a.c]

\* a + b and a - b of two radian values
AngAdd(a, b) == [s |-> MulS(a.s, b.c) + MulS(a.c, b.s), c |-> MulS(a.c, b.c) - MulS(a.s, b.s)]

AngSub(a, b) == [s |-> MulS(a.s, b.c) - MulS(a.c, b.s), c |-> MulS(a.c, b.c) + MulS(a.s, b.s)]

\* ---------------------------------------------------------------------
\* Class constants
\* ---------------------------------------------------------------------
NCAM == 4

NCCD == 4

Cams == 0 .. NCAM - 1

Ccds == 0 .. NCCD - 1

TESS_sectors == [i \in 1 .. 39 |-> i]

camSeps == <<36000000, 12000000, 12000000, 36000000>>

TESS_ras ==
  <<
    352684400, 16557100, 36313800, 55007000, 73538200,
    92009600, 110255900, 128115600, 145907100, 165047500,
    189124700, 229588500, 298667100, 276716900, 280398500,
    282442700, 351238100, 16110300, 60202600, 129386700,
    171795100, 197100800, 217287900, 261451600, 265609800,
    270138100, 326852500, 357294400, 18919000, 38356400,
    57635700, 77189100, 96599600, 115295100, 133203500,
    150949700, 170254000, 195717600, 242198100
  >>

TESS_decs ==
  <<
    -64853100, -54016000, -44259000, -36642000, -31934900,
    -30583900, -32634400, -37737000, -45304400, -54816500,
    -65536900, -75125600, -76328100, 62475600, 64067100,
    66142200, 57845600, 67957500, 76234300, 75252000,
    65192400, 53743400, 43807400, 63118100, 61938300,
    61563700, -72426500, -63005600, -52829600, -43317800,
    -35783500, -31395700, -30784800, -33779000, -39687100,
    -47751200, -57372500, -67830700, -76396900
  >>

TESS_rolls ==
  <<
    -137846800, -139566500, -146961600, -157169800, -168948300,
    178636700, 166447600, 155309100, 145916300, 139172400,
    138076100, 153977300, -161062200, 32232900, 55427700,
    79469900, 41968600, 40545300, 19646300, 334568900,
    317949500, 319699200, 327424600, 317262400, 339529300,
    603800, 214506100, 222521600, 219797000, 212044100,
    201233400, 188626300, 175536900, 163191600, 152400600,
    143730600, 138168500, 139351900, 161598600
  >>

HardCoded0 ==
  [
    ang1_cam1 |-> 101588,
    ang2_cam1 |-> -36022035,
    ang3_cam1 |-> 90048315,
    fl_cam1 |-> 145948116,
    opt_coef1_cam1 |-> 1000001,
    opt_coef2_cam1 |-> 247790,
    opt_coef3_cam1 |-> -226813,
    opt_coef4_cam1 |-> 10782434,
    opt_coef5_cam1 |-> -34978173,
    asymang_cam1 |-> 0,
    asymfac_cam1 |-> 1000000,
    x0_ccd1_cam1 |-> 31573417,
    y0_ccd1_cam1 |-> 31551637,
    pix_x_ccd1_cam1 |-> 15000,
    pix_y_ccd1_cam1 |-> 15000,
    ang_ccd1_cam1 |-> 179980833,
    tilt_x_ccd1_cam1 |-> 0,
    tilt_y_ccd1_cam1 |-> 0,
    x0_ccd2_cam1 |-> -906060,
    y0_ccd2_cam1 |-> 31536148,
    pix_x_ccd2_cam1 |-> 15000,
    pix_y_ccd2_cam1 |-> 15000,
    ang_ccd2_cam1 |-> 180000000,
    tilt_x_ccd2_cam1 |-> 0,
    tilt_y_ccd2_cam1 |-> 0,
    x0_ccd3_cam1 |-> -31652818,
    y0_ccd3_cam1 |-> -31438350,
    pix_x_ccd3_cam1 |-> 15000,
    pix_y_ccd3_cam1 |-> 15000,
    ang_ccd3_cam1 |-> -24851,
    tilt_x_ccd3_cam1 |-> 0,
    tilt_y_ccd3_cam1 |-> 0,
    x0_ccd4_cam1 |-> 833161,
    y0_ccd4_cam1 |-> -31458180,
    pix_x_ccd4_cam1 |-> 15000,
    pix_y_ccd4_cam1 |-> 15000,
    ang_ccd4_cam1 |-> 1488,
    tilt_x_ccd4_cam1 |-> 0,
    tilt_y_ccd4_cam1 |-> 0
  ]

HardCoded1 ==
  [
    ang1_cam1 |-> -179412,
    ang2_cam1 |-> -12017260,
    ang3_cam1 |-> 90046500,
    fl_cam1 |-> 145989933,
    opt_coef1_cam1 |-> 1000001,
    opt_coef2_cam1 |-> 240693,
    opt_coef3_cam1 |-> 153911,
    opt_coef4_cam1 |-> 4054335,
    opt_coef5_cam1 |-> 3431369,
    asymang_cam1 |-> 0,
    asymfac_cam1 |-> 1000000,
    x0_ccd1_cam1 |-> 31653635,
    y0_ccd1_cam1 |-> 31470291,
    pix_x_ccd1_cam1 |-> 15000,
    pix_y_ccd1_cam1 |-> 15000,
    ang_ccd1_cam1 |-> 180010890,
    tilt_x_ccd1_cam1 |-> 0,
    tilt_y_ccd1_cam1 |-> 0,
    x0_ccd2_cam1 |-> -827405,
    y0_ccd2_cam1 |-> 31491388,
    pix_x_ccd2_cam1 |-> 15000,
    pix_y_ccd2_cam1 |-> 15000,
    ang_ccd2_cam1 |-> 180000000,
    tilt_x_ccd2_cam1 |-> 0,
    tilt_y_ccd2_cam1 |-> 0,
    x0_ccd3_cam1 |-> -31543794,
    y0_ccd3_cam1 |-> -31550699,
    pix_x_ccd3_cam1 |-> 15000,
    pix_y_ccd3_cam1 |-> 15000,
    ang_ccd3_cam1 |-> -6624,
    tilt_x_ccd3_cam1 |-> 0,
    tilt_y_ccd3_cam1 |-> 0,
    x0_ccd4_cam1 |-> 922834,
    y0_ccd4_cam1 |-> -31557268,
    pix_x_ccd4_cam1 |-> 15000,
    pix_y_ccd4_cam1 |-> 15000,
    ang_ccd4_cam1 |-> -15464,
    tilt_x_ccd4_cam1 |-> 0,
    tilt_y_ccd4_cam1 |-> 0
  ]

HardCoded2 ==
  [
    ang1_cam1 |-> 66596,
    ang2_cam1 |-> 12007750,
    ang3_cam1 |-> -89889085,
    fl_cam1 |-> 146006602,
    opt_coef1_cam1 |-> 1000001,
    opt_coef2_cam1 |-> 234522,
    opt_coef3_cam1 |-> 335520,
    opt_coef4_cam1 |-> 1920099,
    opt_coef5_cam1 |-> 12488802,
    asymang_cam1 |-> 0,
    asymfac_cam1 |-> 1000000,
    x0_ccd1_cam1 |-> 31615486,
    y0_ccd1_cam1 |-> 31413644,
    pix_x_ccd1_cam1 |-> 15000,
    pix_y_ccd1_cam1 |-> 15000,
    ang_ccd1_cam1 |-> 179993948,
    tilt_x_ccd1_cam1 |-> 0,
    tilt_y_ccd1_cam1 |-> 0,
    x0_ccd2_cam1 |-> -832993,
    y0_ccd2_cam1 |-> 31426621,
    pix_x_ccd2_cam1 |-> 15000,
    pix_y_ccd2_cam1 |-> 15000,
    ang_ccd2_cam1 |-> 180000000,
    tilt_x_ccd2_cam1 |-> 0,
    tilt_y_ccd2_cam1 |-> 0,
    x0_ccd3_cam1 |-> -31548296,
    y0_ccd3_cam1 |-> -31606976,
    pix_x_ccd3_cam1 |-> 15000,
    pix_y_ccd3_cam1 |-> 15000,
    ang_ccd3_cam1 |-> 298,
    tilt_x_ccd3_cam1 |-> 0,
    tilt_y_ccd3_cam1 |-> 0,
    x0_ccd4_cam1 |-> 896018,
    y0_ccd4_cam1 |-> -31569542,
    pix_x_ccd4_cam1 |-> 15000,
    pix_y_ccd4_cam1 |-> 15000,
    ang_ccd4_cam1 |-> -6464,
    tilt_x_ccd4_cam1 |-> 0,
    tilt_y_ccd4_cam1 |-> 0
  ]

HardCoded3 ==
  [
    ang1_cam1 |-> 30756,
    ang2_cam1 |-> 35978116,
    ang3_cam1 |-> -89976802,
    fl_cam1 |-> 146039793,
    opt_coef1_cam1 |-> 1000001,
    opt_coef2_cam1 |-> 239204,
    opt_coef3_cam1 |-> 133494,
    opt_coef4_cam1 |-> 4777689,
    opt_coef5_cam1 |-> -1751147,
    asymang_cam1 |-> 0,
    asymfac_cam1 |-> 1000000,
    x0_ccd1_cam1 |-> 31575820,
    y0_ccd1_cam1 |-> 31316510,
    pix_x_ccd1_cam1 |-> 15000,
    pix_y_ccd1_cam1 |-> 15000,
    ang_ccd1_cam1 |-> 179968217,
    tilt_x_ccd1_cam1 |-> 0,
    tilt_y_ccd1_cam1 |-> 0,
    x0_ccd2_cam1 |-> -890877,
    y0_ccd2_cam1 |-> 31363511,
    pix_x_ccd2_cam1 |-> 15000,
    pix_y_ccd2_cam1 |-> 15000,
    ang_ccd2_cam1 |-> 180000000,
    tilt_x_ccd2_cam1 |-> 0,
    tilt_y_ccd2_cam1 |-> 0,
    x0_ccd3_cam1 |-> -31630470,
    y0_ccd3_cam1 |-> -31716942,
    pix_x_ccd3_cam1 |-> 15000,
    pix_y_ccd3_cam1 |-> 15000,
    ang_ccd3_cam1 |-> -24359,
    tilt_x_ccd3_cam1 |-> 0,
    tilt_y_ccd3_cam1 |-> 0,
    x0_ccd4_cam1 |-> 824159,
    y0_ccd4_cam1 |-> -31728751,
    pix_x_ccd4_cam1 |-> 15000,
    pix_y_ccd4_cam1 |-> 15000,
    ang_ccd4_cam1 |-> -24280,
    tilt_x_ccd4_cam1 |-> 0,
    tilt_y_ccd4_cam1 |-> 0
  ]

HardCoded == (0 :> HardCoded0) @@ (1 :> HardCoded1) @@ (2 :> HardCoded2) @@ (3 :> HardCoded3)

CCDWD_T == 2048

CCDHT_T == 2058

ROWA == 44

ROWB == 44

COLDK_T == 20

\* 'x0_ccd{0:1d}_cam1'.format(iccd+1) and the other per-CCD keys
CcdKey(name, iccd) ==
  CASE name = "x0" -> <<"x0_ccd1_cam1", "x0_ccd2_cam1", "x0_ccd3_cam1", "x0_ccd4_cam1">>[iccd + 1]
    [] name = "y0" -> <<"y0_ccd1_cam1", "y0_ccd2_cam1", "y0_ccd3_cam1", "y0_ccd4_cam1">>[iccd + 1]
    [] name = "pix_x" -> <<"pix_x_ccd1_cam1", "pix_x_ccd2_cam1", "pix_x_ccd3_cam1", "pix_x_ccd4_cam1">>[iccd + 1]
    [] name = "pix_y" -> <<"pix_y_ccd1_cam1", "pix_y_ccd2_cam1", "pix_y_ccd3_cam1", "pix_y_ccd4_cam1">>[iccd + 1]
    [] name = "ang" -> <<"ang_ccd1_cam1", "ang_ccd2_cam1", "ang_ccd3_cam1", "ang_ccd4_cam1">>[iccd + 1]
    [] name = "tilt_x" -> <<"tilt_x_ccd1_cam1", "tilt_x_ccd2_cam1", "tilt_x_ccd3_cam1", "tilt_x_ccd4_cam1">>[iccd + 1]
    [] name = "tilt_y" -> <<"tilt_y_ccd1_cam1", "tilt_y_ccd2_cam1", "tilt_y_ccd3_cam1", "tilt_y_ccd4_cam1">>[iccd + 1]

\* the keys read_all_levine_fpg_files looks up in a camera's dictionary
RequiredKeys ==
  {"ang1_cam1", "ang2_cam1", "ang3_cam1", "fl_cam1", "opt_coef1_cam1", "opt_coef2_cam1",
   "opt_coef3_cam1", "opt_coef4_cam1", "opt_coef5_cam1", "asymang_cam1", "asymfac_cam1"}
  \cup {CcdKey(n, iccd) : n \in {"x0", "y0", "pix_x", "pix_y", "ang", "tilt_x", "tilt_y"}, iccd \in Ccds}

\* ---------------------------------------------------------------------
\* numpy arrays, indexed from 0
\* ---------------------------------------------------------------------
Arr2(a, b) == (0 :> a) @@ (1 :> b)

Arr3(a, b, c) == (0 :> a) @@ (1 :> b) @@ (2 :> c)

Arr4(a, b, c, d) == (0 :> a) @@ (1 :> b) @@ (2 :> c) @@ (3 :> d)

Arr6(a, b, c, d, e, f) == (0 :> a) @@ (1 :> b) @@ (2 :> c) @@ (3 :> d) @@ (4 :> e) @@ (5 :> f)

\* the 3x3 array of elements E(i, j), the NCAM array F(icam), the NCCD array F(iccd)
Mat33(E(_, _)) ==
  Arr3(Arr3(E(0, 0), E(0, 1), E(0, 2)), Arr3(E(1, 0), E(1, 1), E(1, 2)),
       Arr3(E(2, 0), E(2, 1), E(2, 2)))

CamArr(F(_)) == Arr4(F(0), F(1), F(2), F(3))

CcdArr(F(_)) == Arr4(F(0), F(1), F(2), F(3))

\* ---------------------------------------------------------------------
\* Rotation matrices
\* ---------------------------------------------------------------------
Zeros33 == Mat33(LAMBDA i, j : 0)

matmul(a, b) ==
  Mat33(LAMBDA i, j : MulS(a[i][0], b[0][j]) + MulS(a[i][1], b[1][j]) + MulS(a[i][2], b[2][j]))

matvec(a, v) ==
  LET e(i) == MulS(a[i][0], v[0]) + MulS(a[i][1], v[1]) + MulS(a[i][2], v[2])
  IN  Arr3(e(0), e(1), e(2))

rotm1(ax, ang) ==
  LET n1 == ax
      n2 == (n1 + 1) % 3
      n3 == (n2 + 1) % 3
      sinang == ang.s
      cosang == ang.c
  IN  Mat33(LAMBDA i, j :
        IF i = n3 /\ j = n2 THEN -sinang
        ELSE IF i = n2 /\ j = n3 THEN sinang
        ELSE IF i = n3 /\ j = n3 THEN cosang
        ELSE IF i = n2 /\ j = n2 THEN cosang
        ELSE IF i = n1 /\ j = n1 THEN S
        ELSE 0)

eulerm323(eul) ==
  LET mat1 == rotm1(2, eul[0])
      mat2 == rotm1(1, eul[1])
      mata == matmul(mat2, mat1)
      mat1b == rotm1(2, eul[2])
  IN  matmul(mat1b, mata)

\* the value sky_to_sc_mat assigns to self.rmat1
sky_to_sc_mat(sc_ra_dec_roll) ==
  LET xeul == Arr3(deg2rad(sc_ra_dec_roll[0]),
                   HalfPiMinus(deg2rad(sc_ra_dec_roll[1])),
                   PlusPi(deg2rad(sc_ra_dec_roll[2])))
  IN  eulerm323(xeul)

sc_to_cam_mat(eul) ==
  LET xeul == Arr3(deg2rad(eul[0]), deg2rad(eul[1]), deg2rad(eul[2]))
  IN  eulerm323(xeul)

\* ---------------------------------------------------------------------
\* Levine_FPG: calibration files and construction
\* ---------------------------------------------------------------------
default_fpg_file_list == CamArr(LAMBDA icam : "fpg_pars.txt-")

\* read_levine_fpg_file, on the class-level list pdl and the files on disk:
\* the new list and the lines printed
read_levine_fpg_file(pdl, files, icam, fpg_file) ==
  LET isfile == fpg_file \in DOMAIN files /\ files[fpg_file] # None
      gotParm == isfile /\ files[fpg_file].kind = "table"
  IN  [pdl |-> [pdl EXCEPT ![icam] = IF gotParm THEN files[fpg_file].parms ELSE HardCoded[icam]],
       out |-> IF gotParm THEN <<"Successful Focal Plane Geometry Read From">>
               ELSE IF isfile THEN <<"Could not open">>
               ELSE <<>>]

\* the first loop of read_all_levine_fpg_files, from camera icam on
RECURSIVE ReadFiles(_, _, _, _, _)
ReadFiles(pdl, out, files, fpg_file_list, icam) ==
  IF icam = NCAM THEN [pdl |-> pdl, out |-> out]
  ELSE LET fpg_file == IF fpg_file_list = None THEN default_fpg_file_list[icam]
                       ELSE fpg_file_list[icam]
           r == read_levine_fpg_file(pdl, files, icam, fpg_file)
       IN  ReadFiles(r.pdl, out \o r.out, files, fpg_file_list, icam + 1)

\* read_all_levine_fpg_files: the class-level list after the reads, the
\* working arrays parsed from it, the lines printed, and the exception raised
\* by a dictionary that lacks a key
read_all_levine_fpg_files(pdl, files, fpg_file_list) ==
  With(ReadFiles(pdl, <<>>, files, fpg_file_list, 0), LAMBDA r :
  With(r.pdl, LAMBDA pd :
      IF ~(\A icam \in Cams : RequiredKeys \subseteq DOMAIN pd[icam])
      THEN [pdl |-> pd, out |-> r.out, exc |-> "KeyError", arrays |-> None]
      ELSE [pdl |-> pd, out |-> r.out, exc |-> NoExc, arrays |->
        [eulcam |-> CamArr(LAMBDA icam :
                      Arr3(pd[icam]["ang1_cam1"], pd[icam]["ang2_cam1"], pd[icam]["ang3_cam1"])),
         optcon |-> CamArr(LAMBDA icam :
                      Arr6(pd[icam]["fl_cam1"], pd[icam]["opt_coef1_cam1"],
                           pd[icam]["opt_coef2_cam1"], pd[icam]["opt_coef3_cam1"],
                           pd[icam]["opt_coef4_cam1"], pd[icam]["opt_coef5_cam1"])),
         asymang |-> CamArr(LAMBDA icam : pd[icam]["asymang_cam1"]),
         asymfac |-> CamArr(LAMBDA icam : pd[icam]["asymfac_cam1"]),
         ccdxy0 |-> CamArr(LAMBDA icam : CcdArr(LAMBDA iccd :
                      Arr2(pd[icam][CcdKey("x0", iccd)], pd[icam][CcdKey("y0", iccd)]))),
         pixsz |-> CamArr(LAMBDA icam : CcdArr(LAMBDA iccd :
                      Arr2(pd[icam][CcdKey("pix_x", iccd)], pd[icam][CcdKey("pix_y", iccd)]))),
         ccdang |-> CamArr(LAMBDA icam : CcdArr(LAMBDA iccd : pd[icam][CcdKey("ang", iccd)])),
         ccdtilt |-> CamArr(LAMBDA icam : CcdArr(LAMBDA iccd :
                      Arr2(pd[icam][CcdKey("tilt_x", iccd)], pd[icam][CcdKey("tilt_y", iccd)])))]]))

\* Levine_FPG.__init__: the object built (None when construction raised), the
\* class-level parm_dict_list it leaves behind, the lines printed
Levine_FPG(pdl, files, sc_ra_dec_roll, fpg_file_list) ==
  With(read_all_levine_fpg_files(pdl, files, fpg_file_list), LAMBDA r :
  With(r.arrays, LAMBDA a :
  With(IF sc_ra_dec_roll = None THEN Zeros33 ELSE sky_to_sc_mat(sc_ra_dec_roll), LAMBDA rmat1 :
  With(IF sc_ra_dec_roll = None \/ r.exc # NoExc THEN CamArr(LAMBDA icam : Zeros33)
       ELSE CamArr(LAMBDA icam :
              LET cureul == a.eulcam[icam]
                  rmat2 == sc_to_cam_mat(cureul)
              IN  matmul(rmat2, rmat1)), LAMBDA rmat4 :
      IF r.exc # NoExc THEN [obj |-> None, pdl |-> r.pdl, out |-> r.out, exc |-> r.exc]
      ELSE [obj |-> [eulcam |-> a.eulcam, optcon |-> a.optcon, ccdxy0 |-> a.ccdxy0,
                     pixsz |-> a.pixsz, ccdang |-> a.ccdang, ccdtilt |-> a.ccdtilt,
                     asymang |-> a.asymang, asymfac |-> a.asymfac,
                     rmat1 |-> rmat1, rmat4 |-> rmat4,
                     havePointing |-> (sc_ra_dec_roll # None)],
            pdl |-> r.pdl, out |-> r.out, exc |-> NoExc]))))

\* ---------------------------------------------------------------------
\* Levine_FPG: sky to pixel mapping
\* ---------------------------------------------------------------------
\* sphereToCart on radian values
sphereToCartRad(rarads, decrads) ==
  LET sinras == rarads.s
      cosras == rarads.c
      sindecs == decrads.s
      cosdecs == decrads.c
  IN  Arr3(MulS(cosras, cosdecs), MulS(sinras, cosdecs), sindecs)

\* sphereToCart on one (ra, dec) in degrees
sphereToCart(ras, decs) == sphereToCartRad(deg2rad(ras), deg2rad(decs))

\* np.sqrt(np.sum(vec*vec))
Norm(vec) == SqrtS(MulS(vec[0], vec[0]) + MulS(vec[1], vec[1]) + MulS(vec[2], vec[2]))

\* cartToSphere: (ra, dec) as radian values; arcsin(z/norm) is the angle in
\* [-pi/2, pi/2] of sine z/norm, arctan2(y, x) the angle of direction (x, y)
cartToSphere(vec) ==
  LET norm == Norm(vec)
      rxy == SqrtS(MulS(vec[0], vec[0]) + MulS(vec[1], vec[1]))
      zero == [s |-> 0, c |-> S]
  IN  IF norm > 0
      THEN [dec |-> [s |-> DivS(vec[2], norm), c |-> DivS(rxy, norm)],
            ra |-> IF vec[0] # 0 \/ vec[1] # 0
                   THEN (IF rxy > 0 THEN [s |-> DivS(vec[1], rxy), c |-> DivS(vec[0], rxy)] ELSE zero)
                   ELSE zero]
      ELSE [dec |-> zero, ra |-> zero]

\* star_in_fov with the projection along x tested alone
star_in_fov_x_only(lng, lat) ==
  LET lim == deg2rad(12500000)
      tanlim == DivS(lim.s, lim.c)
      vec0 == sphereToCartRad(lng, lat)
      norm == Norm(vec0)
      vec == Arr3(DivS(vec0[0], norm), DivS(vec0[1], norm), DivS(vec0[2], norm))
  IN  IF lat.s > deg2rad(70000000).s
      THEN (IF norm > 0
            THEN Abs(DivS(vec[0], vec[2])) <= tanlim
            ELSE FALSE)
      ELSE FALSE

\* star_in_fov(lng, lat), both angles as produced by cartToSphere.
\* lat > 70.0 compares latitudes in [-90, 90] by their sines;
\* |arctan(q)| <= 12.5 deg compares by the tangent.
star_in_fov(lng, lat) ==
  LET lim == deg2rad(12500000)
      tanlim == DivS(lim.s, lim.c)
      vec0 == sphereToCartRad(lng, lat)
      norm == Norm(vec0)
      vec == Arr3(DivS(vec0[0], norm), DivS(vec0[1], norm), DivS(vec0[2], norm))
  IN  IF lat.s > deg2rad(70000000).s
      THEN (IF norm > 0
            THEN Abs(DivS(vec[0], vec[2])) <= tanlim /\ Abs(DivS(vec[1], vec[2])) <= tanlim
            ELSE FALSE)
      ELSE FALSE

xyrotate(angle_deg, xin) ==
  LET ca == deg2rad(angle_deg).c
      sa == deg2rad(angle_deg).s
  IN  Arr2(MulS(xin[0], ca) + MulS(xin[1], sa), MulS(xin[0], -sa) + MulS(xin[1], ca))

make_az_asym(self, icam, xy) ==
  LET xyp == xyrotate(self.asymang[icam], xy)
      xypa == Arr2(MulS(xyp[0], self.asymfac[icam]), xyp[1])
  IN  xyrotate(-self.asymang[icam], xypa)

\* np.power(x, n) for an even n
RECURSIVE Power(_, _)
Power(x, n) == IF n = 0 THEN S ELSE MulS(Power(x, n - 1), x)

optics_fp(self, icam, lng_deg, lat_deg) ==
  LET thetar == HalfPiMinus(lat_deg)
      tanth == DivS(thetar.s, thetar.c)
      cphi == lng_deg.c
      sphi == lng_deg.s
      rfp0 == MulS(self.optcon[icam][0], tanth)
      rfp == MulS(self.optcon[icam][1], Power(tanth, 0)) + MulS(self.optcon[icam][2], Power(tanth, 2))
             + MulS(self.optcon[icam][3], Power(tanth, 4)) + MulS(self.optcon[icam][4], Power(tanth, 6))
             + MulS(self.optcon[icam][5], Power(tanth, 8))
      xytmp == Arr2(MulS(MulS(rfp0, -cphi), rfp), MulS(MulS(rfp0, -sphi), rfp))
  IN  make_az_asym(self, icam, xytmp)

\* CCD-local pixel position of the focal plane point xya on CCD iccd
CcdPx(self, icam, iccd, xya) ==
  LET xyb == Arr2(xya[0] - self.ccdxy0[icam][iccd][0], xya[1] - self.ccdxy0[icam][iccd][1])
      xyccd == xyrotate(self.ccdang[icam][iccd], xyb)
  IN  Arr2(DivPX(xyccd[0], self.pixsz[icam][iccd][0]) - (PX \div 2),
           DivPX(xyccd[1], self.pixsz[icam][iccd][1]) - (PX \div 2))

\* FITS pixel position with the collateral columns ROWB left out
FitPxNoRowB(iccd, ccdpx) ==
  CASE iccd = 0 -> Arr2((CCDWD_T * PX - ccdpx[0]) + (CCDWD_T + 2 * ROWA) * PX - PX,
                        (CCDHT_T * PX - ccdpx[1]) + (CCDHT_T + 2 * COLDK_T) * PX - PX)
    [] iccd = 3 -> Arr2(ccdpx[0] + (CCDWD_T + 2 * ROWA) * PX, ccdpx[1])
    [] iccd = 1 -> Arr2((CCDWD_T * PX - ccdpx[0]) + ROWA * PX - PX,
                        (CCDHT_T * PX - ccdpx[1]) + (CCDHT_T + 2 * COLDK_T) * PX - PX)
    [] iccd = 2 -> Arr2(ccdpx[0] + ROWA * PX, ccdpx[1])

\* FITS pixel position of the CCD-local position ccdpx on CCD iccd
FitPx(iccd, ccdpx) ==
  CASE iccd = 0 -> Arr2((CCDWD_T * PX - ccdpx[0]) + (CCDWD_T + 2 * ROWA + ROWB) * PX - PX,
                        (CCDHT_T * PX - ccdpx[1]) + (CCDHT_T + 2 * COLDK_T) * PX - PX)
    [] iccd = 3 -> Arr2(ccdpx[0] + (CCDWD_T + 2 * ROWA + ROWB) * PX, ccdpx[1])
    [] iccd = 1 -> Arr2((CCDWD_T * PX - ccdpx[0]) + ROWA * PX - PX,
                        (CCDHT_T * PX - ccdpx[1]) + (CCDHT_T + 2 * COLDK_T) * PX - PX)
    [] iccd = 2 -> Arr2(ccdpx[0] + ROWA * PX, ccdpx[1])

\* mm_to_pix with a coordinate equal to 0 counted as negative
mm_to_pix_strict(self, icam, xy) ==
  LET xya == xy
      iccd == IF xya[0] > 0
              THEN (IF xya[1] > 0 THEN 0 ELSE 3)
              ELSE (IF xya[1] > 0 THEN 1 ELSE 2)
      ccdpx == CcdPx(self, icam, iccd, xya)
  IN  [iccd |-> iccd, ccdpx |-> ccdpx, fitpx |-> FitPx(iccd, ccdpx)]

mm_to_pix(self, icam, xy) ==
  LET xya == xy
      iccd == IF xya[0] >= 0
              THEN (IF xya[1] >= 0 THEN 0 ELSE 3)
              ELSE (IF xya[1] >= 0 THEN 1 ELSE 2)
      ccdpx == CcdPx(self, icam, iccd, xya)
  IN  [iccd |-> iccd, ccdpx |-> ccdpx, fitpx |-> FitPx(iccd, ccdpx)]

\* mm_to_pix_single_ccd with the FITS formulas of CCD 1 and CCD 3 exchanged
mm_to_pix_single_ccd_swapped(self, icam, xy, iccd) ==
  LET xya == xy
      xyb == Arr2(xya[0] - self.ccdxy0[icam][iccd][0], xya[1] - self.ccdxy0[icam][iccd][1])
      xyccd == xyrotate(self.ccdang[icam][iccd], xyb)
      ccdpx == Arr2(DivPX(xyccd[0], self.pixsz[icam][iccd][0]) - (PX \div 2),
                    DivPX(xyccd[1], self.pixsz[icam][iccd][1]) - (PX \div 2))
  IN  IF iccd = 0
      THEN [ccdpx |-> ccdpx,
            fitpx |-> Arr2((CCDWD_T * PX - ccdpx[0]) + CCDWD_T * PX + 2 * ROWA * PX + ROWB * PX - PX,
                           (CCDHT_T * PX - ccdpx[1]) + CCDHT_T * PX + 2 * COLDK_T * PX - PX)]
      ELSE IF iccd = 1
      THEN [ccdpx |-> ccdpx,
            fitpx |-> Arr2(ccdpx[0] + CCDWD_T * PX + 2 * ROWA * PX + ROWB * PX, ccdpx[1])]
      ELSE IF iccd = 3
      THEN [ccdpx |-> ccdpx,
            fitpx |-> Arr2((CCDWD_T * PX - ccdpx[0]) + ROWA * PX - PX,
                           (CCDHT_T * PX - ccdpx[1]) + CCDHT_T * PX + 2 * COLDK_T * PX - PX)]
      ELSE IF iccd = 2
      THEN [ccdpx |-> ccdpx, fitpx |-> Arr2(ccdpx[0] + ROWA * PX, ccdpx[1])]
      ELSE [ccdpx |-> Arr2(0, 0), fitpx |-> Arr2(0, 0)]

\* mm_to_pix_single_ccd (lines 615-661): the four tests on iccd in the order
\* of the code; for any other iccd the arrays stay zero
mm_to_pix_single_ccd(self, icam, xy, iccd) ==
  LET xya == xy
      xyb == Arr2(xya[0] - self.ccdxy0[icam][iccd][0], xya[1] - self.ccdxy0[icam][iccd][1])
      xyccd == xyrotate(self.ccdang[icam][iccd], xyb)
      ccdpx == Arr2(DivPX(xyccd[0], self.pixsz[icam][iccd][0]) - (PX \div 2),
                    DivPX(xyccd[1], self.pixsz[icam][iccd][1]) - (PX \div 2))
  IN  IF iccd = 0
      THEN [ccdpx |-> ccdpx,
            fitpx |-> Arr2((CCDWD_T * PX - ccdpx[0]) + CCDWD_T * PX + 2 * ROWA * PX + ROWB * PX - PX,
                           (CCDHT_T * PX - ccdpx[1]) + CCDHT_T * PX + 2 * COLDK_T * PX - PX)]
      ELSE IF iccd = 3
      THEN [ccdpx |-> ccdpx,
            fitpx |-> Arr2(ccdpx[0] + CCDWD_T * PX + 2 * ROWA * PX + ROWB * PX, ccdpx[1])]
      ELSE IF iccd = 1
      THEN [ccdpx |-> ccdpx,
            fitpx |-> Arr2((CCDWD_T * PX - ccdpx[0]) + ROWA * PX - PX,
                           (CCDHT_T * PX - ccdpx[1]) + CCDHT_T * PX + 2 * COLDK_T * PX - PX)]
      ELSE IF iccd = 2
      THEN [ccdpx |-> ccdpx, fitpx |-> Arr2(ccdpx[0] + ROWA * PX, ccdpx[1])]
      ELSE [ccdpx |-> Arr2(0, 0), fitpx |-> Arr2(0, 0)]

EmptyPix ==
  [inCamera |-> <<>>, ccdNum |-> <<>>, fitsxpos |-> <<>>, fitsypos |-> <<>>,
   ccdxpos |-> <<>>, ccdypos |-> <<>>]

\* the body of the inner loop with the camera and CCD numbers left base 0
RadecStepBaseZero(self, acc, curVec, j) ==
  LET camVec == matvec(self.rmat4[j], curVec)
      sph == cartToSphere(camVec)
      lng == sph.ra
      lat == sph.dec
      xyfp == optics_fp(self, j, lng, lat)
      px == mm_to_pix(self, j, xyfp)
  IN  IF star_in_fov(lng, lat)
      THEN [inCamera |-> Append(acc.inCamera, j),
            ccdNum |-> Append(acc.ccdNum, px.iccd),
            fitsxpos |-> Append(acc.fitsxpos, px.fitpx[0]),
            fitsypos |-> Append(acc.fitsypos, px.fitpx[1]),
            ccdxpos |-> Append(acc.ccdxpos, px.ccdpx[0]),
            ccdypos |-> Append(acc.ccdypos, px.ccdpx[1])]
      ELSE acc

\* the body of radec2pix's inner loop for one star and camera j: the six
\* arrays after the iteration
RadecStep(self, acc, curVec, j) ==
  LET camVec == matvec(self.rmat4[j], curVec)
      sph == cartToSphere(camVec)
      lng == sph.ra
      lat == sph.dec
      xyfp == optics_fp(self, j, lng, lat)
      px == mm_to_pix(self, j, xyfp)
  IN  IF star_in_fov(lng, lat)
      THEN [inCamera |-> Append(acc.inCamera, j + 1),
            ccdNum |-> Append(acc.ccdNum, px.iccd + 1),
            fitsxpos |-> Append(acc.fitsxpos, px.fitpx[0]),
            fitsypos |-> Append(acc.fitsypos, px.fitpx[1]),
            ccdxpos |-> Append(acc.ccdxpos, px.ccdpx[0]),
            ccdypos |-> Append(acc.ccdypos, px.ccdpx[1])]
      ELSE acc

\* the loops of radec2pix from star i (counted from 1) and camera j on
RECURSIVE RadecLoop(_, _, _, _, _, _)
RadecLoop(self, acc, ras, decs, i, j) ==
  IF i > Len(ras) THEN acc
  ELSE IF j = NCAM THEN RadecLoop(self, acc, ras, decs, i + 1, 0)
  ELSE RadecLoop(self, RadecStep(self, acc, sphereToCart(ras[i], decs[i]), j), ras, decs, i, j + 1)

\* radec2pix without the test of havePointing
radec2pixUnchecked(self, ras, decs) ==
  [res |-> RadecLoop(self, EmptyPix, ras, decs, 1, 0), out |-> <<>>]

\* radec2pix: the six arrays returned and the lines printed
radec2pix(self, ras, decs) ==
  IF self.havePointing = TRUE
  THEN [res |-> RadecLoop(self, EmptyPix, ras, decs, 1, 0), out |-> <<>>]
  ELSE [res |-> EmptyPix, out |-> <<"Spacecraft Pointing Not specified!">>]

\* ---------------------------------------------------------------------
\* TESS_Spacecraft_Pointing_Data
\* ---------------------------------------------------------------------
\* the class attributes as the class body defines them
ClassTables ==
  [sectors |-> TESS_sectors, ras |-> TESS_ras, decs |-> TESS_decs, rolls |-> TESS_rolls,
   camSeps |-> camSeps]

\* arccos of an S-scaled cosine: the angle in [0, pi]
ArcCos(cosv) == [s |-> SqrtS(S - MulS(cosv, cosv)), c |-> cosv]

get_radec_from_posangsep(ra, dec, pa, sep) ==
  LET rar == deg2rad(ra)
      decr == deg2rad(dec)
      par == deg2rad(pa)
      sepr == deg2rad(sep)
      c == HalfPiMinus(decr)
      bigB == par
      a == sepr
  IN  With(ArcCos(MulS(c.c, a.c) + MulS(MulS(c.s, a.s), bigB.c)), LAMBDA b :
      With(HalfPiMinus(b), LAMBDA newdec :
      With(DivS(sepr.c - MulS(decr.s, newdec.s), MulS(decr.c, newdec.c)), LAMBDA ratio :
      With(ArcCos(IF ratio < S THEN ratio ELSE S), LAMBDA delalp :
      With(IF pa > 180 * S THEN AngSub(rar, delalp) ELSE AngAdd(rar, delalp), LAMBDA newra :
        [ra |-> newra, dec |-> newdec])))))

\* the positions holding v, or the nearest end of seq for a v outside it
RECURSIVE WhereNearest(_, _, _, _)
WhereNearest(seq, v, lo, hi) ==
  IF lo > hi THEN <<>>
  ELSE IF lo = hi
       THEN (IF \/ seq[lo] = v
                \/ lo = 1 /\ v < seq[lo]
                \/ lo = Len(seq) /\ v > seq[lo]
             THEN <<lo>> ELSE <<>>)
  ELSE WhereNearest(seq, v, lo, (lo + hi) \div 2) \o WhereNearest(seq, v, (lo + hi) \div 2 + 1, hi)

\* np.where(seq == v)[0] over the positions lo .. hi: those holding v, ascending
RECURSIVE Where(_, _, _, _)
Where(seq, v, lo, hi) ==
  IF lo > hi THEN <<>>
  ELSE IF lo = hi THEN (IF seq[lo] = v THEN <<lo>> ELSE <<>>)
  ELSE Where(seq, v, lo, (lo + hi) \div 2) \o Where(seq, v, (lo + hi) \div 2 + 1, hi)

RECURSIVE TakeFrom(_, _, _)
TakeFrom(seq, idx, k) ==
  IF k > Len(idx) THEN <<>> ELSE <<seq[idx[k]]>> \o TakeFrom(seq, idx, k + 1)

\* the first len(idx) elements of seq, whatever the positions idx
TakeLeading(seq, idx) == SubSeq(seq, 1, Len(idx))

\* seq[idx]: the elements of seq at the positions idx
Take(seq, idx) == TakeFrom(seq, idx, 1)

\* the position angle of camera iCam at roll curroll (degrees * S)
camposang(curroll, iCam) ==
  IF iCam < 2 THEN (180 * S - curroll) % (360 * S) ELSE (360 * S - curroll) % (360 * S)

\* the iterations lo .. hi of the loop over the pointings, for camera iCam:
\* the centres get_radec_from_posangsep returns
RECURSIVE SolveCam(_, _, _, _, _)
SolveCam(attrs, seps, iCam, lo, hi) ==
  IF lo > hi THEN <<>>
  ELSE IF lo = hi
       THEN <<get_radec_from_posangsep(attrs.ras[lo], attrs.decs[lo],
                                       camposang(attrs.rolls[lo], iCam), seps[iCam + 1])>>
  ELSE SolveCam(attrs, seps, iCam, lo, (lo + hi) \div 2)
         \o SolveCam(attrs, seps, iCam, (lo + hi) \div 2 + 1, hi)

\* one field of the records lo .. hi of a sequence
RECURSIVE Column(_, _, _, _)
Column(seq, field, lo, hi) ==
  IF lo > hi THEN <<>>
  ELSE IF lo = hi THEN <<seq[lo][field]>>
  ELSE Column(seq, field, lo, (lo + hi) \div 2) \o Column(seq, field, (lo + hi) \div 2 + 1, hi)

\* the iterations lo .. hi of the loop that builds fpgObjs, one Levine_FPG per
\* retained pointing, from the state st = [objs, pdl, out, exc] before them;
\* an exception ends the loop
RECURSIVE BuildFpgObjs(_, _, _, _, _, _)
BuildFpgObjs(st, files, self, fpg_file_list, lo, hi) ==
  IF st.exc # NoExc \/ lo > hi THEN st
  ELSE IF lo = hi
       THEN With(Levine_FPG(st.pdl, files, Arr3(self.ras[lo], self.decs[lo], self.rolls[lo]),
                            fpg_file_list), LAMBDA r :
              [objs |-> IF r.exc # NoExc THEN st.objs ELSE Append(st.objs, r.obj),
               pdl |-> r.pdl, out |-> st.out \o r.out, exc |-> r.exc])
  ELSE BuildFpgObjs(BuildFpgObjs(st, files, self, fpg_file_list, lo, (lo + hi) \div 2),
                    files, self, fpg_file_list, (lo + hi) \div 2 + 1, hi)

\* the constructor with the retained pointings assigned to the class
\* attributes instead of the instance
TESS_Spacecraft_Pointing_Data_InClass(cls, pdl, files, trySector, fpgParmFileList) ==
  With(IF trySector # None THEN Where(cls.sectors, trySector[1], 1, Len(cls.sectors)) ELSE <<>>,
       LAMBDA idx :
  With(IF trySector # None
       THEN [sectors |-> Take(cls.sectors, idx), ras |-> Take(cls.ras, idx),
             decs |-> Take(cls.decs, idx), rolls |-> Take(cls.rolls, idx)]
       ELSE [sectors |-> cls.sectors, ras |-> cls.ras, decs |-> cls.decs,
             rolls |-> cls.rolls], LAMBDA attrs :
  With(Len(attrs.sectors), LAMBDA nPoints :
  With(CamArr(LAMBDA iCam : SolveCam(attrs, cls.camSeps, iCam, 1, nPoints)), LAMBDA cam :
  With(IF fpgParmFileList # None THEN fpgParmFileList ELSE None, LAMBDA fpg_file_list :
  With(BuildFpgObjs([objs |-> <<>>, pdl |-> pdl, out |-> <<>>, exc |-> NoExc],
                    files, attrs, fpg_file_list, 1, nPoints), LAMBDA f :
      [obj |-> IF f.exc # NoExc THEN None
               ELSE [sectors |-> attrs.sectors, ras |-> attrs.ras, decs |-> attrs.decs,
                     rolls |-> attrs.rolls,
                     camRa |-> CamArr(LAMBDA iCam : Column(cam[iCam], "ra", 1, nPoints)),
                     camDec |-> CamArr(LAMBDA iCam : Column(cam[iCam], "dec", 1, nPoints)),
                     fpgObjs |-> f.objs],
       cls |-> [cls EXCEPT !.sectors = attrs.sectors, !.ras = attrs.ras,
                          !.decs = attrs.decs, !.rolls = attrs.rolls], pdl |-> f.pdl, out |-> f.out, exc |-> f.exc,
       solverCalls |-> 4 * nPoints]))))))

\* TESS_Spacecraft_Pointing_Data.__init__ run against the class attributes
\* cls: the instance (None when construction raised), the class attributes and
\* Levine_FPG.parm_dict_list afterwards, the lines printed, and the number of
\* calls of get_radec_from_posangsep.  Sequences are indexed from 1.
TESS_Spacecraft_Pointing_Data(cls, pdl, files, trySector, fpgParmFileList) ==
  With(IF trySector # None THEN Where(cls.sectors, trySector[1], 1, Len(cls.sectors)) ELSE <<>>,
       LAMBDA idx :
  With(IF trySector # None
       THEN [sectors |-> Take(cls.sectors, idx), ras |-> Take(cls.ras, idx),
             decs |-> Take(cls.decs, idx), rolls |-> Take(cls.rolls, idx)]
       ELSE [sectors |-> cls.sectors, ras |-> cls.ras, decs |-> cls.decs,
             rolls |-> cls.rolls], LAMBDA attrs :
  With(Len(attrs.sectors), LAMBDA nPoints :
  With(CamArr(LAMBDA iCam : SolveCam(attrs, cls.camSeps, iCam, 1, nPoints)), LAMBDA cam :
  With(IF fpgParmFileList # None THEN fpgParmFileList ELSE None, LAMBDA fpg_file_list :
  With(BuildFpgObjs([objs |-> <<>>, pdl |-> pdl, out |-> <<>>, exc |-> NoExc],
                    files, attrs, fpg_file_list, 1, nPoints), LAMBDA f :
      [obj |-> IF f.exc # NoExc THEN None
               ELSE [sectors |-> attrs.sectors, ras |-> attrs.ras, decs |-> attrs.decs,
                     rolls |-> attrs.rolls,
                     camRa |-> CamArr(LAMBDA iCam : Column(cam[iCam], "ra", 1, nPoints)),
                     camDec |-> CamArr(LAMBDA iCam : Column(cam[iCam], "dec", 1, nPoints)),
                     fpgObjs |-> f.objs],
       cls |-> cls, pdl |-> f.pdl, out |-> f.out, exc |-> f.exc,
       solverCalls |-> 4 * nPoints]))))))

\* ---------------------------------------------------------------------
\* The MAST archive and the two searches
\* ---------------------------------------------------------------------
\* names the module binds at import time (lines 147-168) and by its own
\* class and function definitions
ModuleGlobals ==
  {"np", "os", "argparse", "SkyCoord", "sys", "datetime", "json", "pd", "urlencode",
   "urlretrieve", "urlparse", "httplib", "opt", "base64", "Levine_FPG",
   "TESS_Spacecraft_Pointing_Data", "get_radec_from_posangsep", "mastQuery",
   "ticConeSearch", "ticIdSearch", "SectFromCoords"}

RECURSIVE ToDecimal(_)
ToDecimal(n) == IF n < 10 THEN <<n>> ELSE Append(ToDecimal(n \div 10), n % 10)

\* the nine decimal digits of a limb below 10^9, leading zeros included
Pad9(n) ==
  [i \in 1 .. 9 |->
     (n \div <<100000000, 10000000, 1000000, 100000, 10000, 1000, 100, 10, 1>>[i]) % 10]

\* the decimal digits of a Python integer held as limbs to the base 10^9,
\* most significant first (one limb for a value below 10^9)
RECURSIVE LimbDigits(_, _)
LimbDigits(t, k) ==
  IF k > Len(t) THEN <<>>
  ELSE (IF k = 1 THEN ToDecimal(t[1]) ELSE Pad9(t[k])) \o LimbDigits(t, k + 1)

\* the digits of the low-order limb alone: the value truncated
str_int_low(t) == ToDecimal(t[Len(t)])

\* str(int(tic)) for an integer identifier: its decimal digits
str_int(t) == LimbDigits(t, 1)

\* rows of the TESS Input Catalog held by the archive (Tmag * 1000)
TicCatalog ==
  << [ID |-> 261136680, ra |-> 84291200, dec |-> -80469100, Tmag |-> 13250],
     [ID |-> 261136679, ra |-> 84291200, dec |-> -80469100, Tmag |-> 5106],
     [ID |-> 300000001, ra |-> 352684400, dec |-> -64853100, Tmag |-> 9000] >>

SelectRows(Test(_)) == SelectSeq(TicCatalog, Test)

\* the archive's 'data' for a request
ArchiveData(request) ==
  IF request.service = "Mast.Catalogs.Tic.Cone"
  THEN LET near(row) == row.ra = request.params.ra /\ row.dec = request.params.dec
       IN  SelectRows(near)
  ELSE LET same(row) == ToDecimal(row.ID) = request.params.filters[1].values
       IN  SelectRows(same)

Statuses == {"EXECUTING", "COMPLETE", "ERROR"}

\* the base64 alphabet, indexed from 1
B64Chars ==
  << "A", "B", "C", "D", "E", "F", "G", "H", "I", "J", "K", "L", "M", "N", "O", "P",
     "Q", "R", "S", "T", "U", "V", "W", "X", "Y", "Z", "a", "b", "c", "d", "e", "f",
     "g", "h", "i", "j", "k", "l", "m", "n", "o", "p", "q", "r", "s", "t", "u", "v",
     "w", "x", "y", "z", "0", "1", "2", "3", "4", "5", "6", "7", "8", "9", "+", "/" >>

\* base64.b64encode on a sequence of byte values: the characters of the result
RECURSIVE b64encode(_)
b64encode(bytes) ==
  IF Len(bytes) = 0 THEN <<>>
  ELSE IF Len(bytes) = 1
       THEN <<B64Chars[bytes[1] \div 4 + 1], B64Chars[(bytes[1] % 4) * 16 + 1], "=", "=">>
  ELSE IF Len(bytes) = 2
       THEN <<B64Chars[bytes[1] \div 4 + 1],
              B64Chars[(bytes[1] % 4) * 16 + bytes[2] \div 16 + 1],
              B64Chars[(bytes[2] % 16) * 4 + 1], "=">>
  ELSE <<B64Chars[bytes[1] \div 4 + 1],
         B64Chars[(bytes[1] % 4) * 16 + bytes[2] \div 16 + 1],
         B64Chars[(bytes[2] % 16) * 4 + bytes[3] \div 64 + 1],
         B64Chars[(bytes[3] % 64) + 1]>> \o b64encode(SubSeq(bytes, 4, Len(bytes)))

\* str() of a bytes object of printable characters: b'...'
str_bytes(b) == <<"b", "'">> \o b \o <<"'">>

\* s.replace(old, ""): every occurrence of old removed, scanning from the left
RECURSIVE replace(_, _)
replace(s, old) ==
  IF Len(s) < Len(old) THEN s
  ELSE IF SubSeq(s, 1, Len(old)) = old THEN replace(SubSeq(s, Len(old) + 1, Len(s)), old)
  ELSE <<s[1]>> \o replace(Tail(s), old)

\* mastQuery: the HTTPS exchange for one request.  proxy_uri is None or what
\* urlparse makes of it, user name and password as byte values (empty when
\* the URI carries none); header values and credentials are character
\* sequences.
mastQuery(request, proxy_uri) ==
  LET host == "mast.stsci.edu"
      headers0 == [h \in {"Content-type", "Accept", "User-agent"} |->
                     CASE h = "Content-type" -> "application/x-www-form-urlencoded"
                       [] h = "Accept" -> "text/plain"
                       [] h = "User-agent" -> "python-requests/version"]
      withAuth == proxy_uri # None /\ proxy_uri.username # <<>> /\ proxy_uri.password # <<>>
      auth == proxy_uri.username \o <<58>> \o proxy_uri.password
      basic == <<"B", "a", "s", "i", "c", " ">>
                 \o replace(replace(str_bytes(b64encode(auth)), <<"b", "'">>), <<"'">>)
      headers == IF withAuth
                 THEN [h \in DOMAIN headers0 \cup {"Proxy-Authorization"} |->
                         IF h = "Proxy-Authorization" THEN basic ELSE headers0[h]]
                 ELSE headers0
  IN  [connect |-> IF proxy_uri = None THEN <<host>> ELSE <<proxy_uri.hostname, proxy_uri.port>>,
       tunnel |-> IF proxy_uri = None THEN None
                  ELSE [host |-> host, port |-> 443, headers |-> headers],
       method |-> "POST", url |-> "/api/v0/invoke", body |-> request, headers |-> headers]

ConeRequest(c) ==
  [service |-> "Mast.Catalogs.Tic.Cone",
   params |-> [ra |-> c.ra, dec |-> c.dec, radius |-> <<10, 3600>>],
   format |-> "json", timeout |-> 10]

IdRequest(t) ==
  [service |-> "Mast.Catalogs.Filtered.Tic",
   params |-> [columns |-> "*", filters |-> <<[paramName |-> "ID", values |-> str_int(t)]>>],
   format |-> "json", removenullcolumns |-> TRUE]

\* np.argmin: position of the first minimum
RECURSIVE ArgMin(_, _, _)
ArgMin(rows, i, best) ==
  IF i > Len(rows) THEN best
  ELSE ArgMin(rows, i + 1, IF rows[i].Tmag < rows[best].Tmag THEN i ELSE best)

\* ---------------------------------------------------------------------
\* SectFromCoords
\* ---------------------------------------------------------------------
\* the acceptance test with the four bounds inclusive
AcceptInclusive(ccdX, ccdY) ==
  LET xUse == ccdX + 45 * PX
      yUse == ccdY + 1 * PX
      xMin == 44 * PX
      ymaxCoord == 2049 * PX
      xmaxCoord == 2093 * PX
  IN  xUse >= xMin /\ yUse >= 0 /\ xUse <= xmaxCoord /\ yUse <= ymaxCoord

\* the acceptance test of lines 973-978 on a hit's CCD-local position
Accept(ccdX, ccdY) ==
  LET xUse == ccdX + 45 * PX
      yUse == ccdY + 1 * PX
      xMin == 44 * PX
      ymaxCoord == 2049 * PX
      xmaxCoord == 2093 * PX
  IN  xUse > xMin /\ yUse > 0 /\ xUse < xmaxCoord /\ yUse < ymaxCoord

\* the inner loop appending a sector once, however many hits are accepted
RECURSIVE HitLoopDedup(_, _, _, _)
HitLoopDedup(res, curSec, jj, acc) ==
  IF jj > Len(res.inCamera) THEN acc
  ELSE HitLoopDedup(res, curSec, jj + 1,
               IF Accept(res.ccdxpos[jj], res.ccdypos[jj])
               THEN [findAny |-> TRUE,
                     sects |-> IF \E k \in 1 .. Len(acc.sects) : acc.sects[k] = curSec
                               THEN acc.sects ELSE acc.sects \o <<curSec>>]
               ELSE acc)

\* the inner loop over the hits of one sector: findAny and sects afterwards
RECURSIVE HitLoop(_, _, _, _)
HitLoop(res, curSec, jj, acc) ==
  IF jj > Len(res.inCamera) THEN acc
  ELSE HitLoop(res, curSec, jj + 1,
               IF Accept(res.ccdxpos[jj], res.ccdypos[jj])
               THEN [findAny |-> TRUE, sects |-> acc.sects \o <<curSec>>]
               ELSE acc)

\* ---------------------------------------------------------------------
\* Inputs and bounds
\* ---------------------------------------------------------------------
\* sky coordinates handed to SectFromCoords and radec2pix (degrees * S)
Targets ==
  { [ra |-> 84291200, dec |-> -80469100],
    [ra |-> 352684400, dec |-> -64853100],
    [ra |-> 0, dec |-> 0] }

\* identifiers handed to SectFromCoords, as limbs to the base 10^9: 261136679,
\* 999, 4294967296 = 2^32 and 10000000000 (the last three not in the archive)
TicIds == { <<261136679>>, <<999>>, <<4, 294967296>>, <<10, 0>> }

\* bound on the number of polling requests of one identifier search
MaxPoll == 3

\* a calibration file: camera 3's table with an azimuthal asymmetry
FileParms == [HardCoded2 EXCEPT !.asymang_cam1 = 500000, !.asymfac_cam1 = 1001000]

\* a parseable file that holds the three camera angles and nothing else
PartialParms == [k \in {"ang1_cam1", "ang2_cam1", "ang3_cam1"} |-> FileParms[k]]

FileNames == {"fpg_pars.txt-", "cam.txt", "bad.txt", "partial.txt"}

NoFiles == [f \in FileNames |-> None]

WithFiles == [f \in FileNames |-> [kind |-> "table", parms |-> FileParms]]

\* no default file, one good table, one file np.genfromtxt cannot read, one
\* table without the per-CCD and optics keys
MixedFiles ==
  [f \in FileNames |->
     CASE f = "cam.txt" -> [kind |-> "table", parms |-> FileParms]
       [] f = "bad.txt" -> [kind |-> "garbage", parms |-> <<>>]
       [] f = "partial.txt" -> [kind |-> "table", parms |-> PartialParms]
       [] OTHER -> None]

FileSystems == {NoFiles, WithFiles, MixedFiles}

FileLists ==
  {None,
   Arr4("cam.txt", "cam.txt", "cam.txt", "cam.txt"),
   Arr4("cam.txt", "fpg_pars.txt-", "bad.txt", "cam.txt"),
   Arr4("cam.txt", "partial.txt", "cam.txt", "cam.txt")}

\* every tabulated sector, and the two numbers next to the table
TrySectors == {None, <<0>>, <<40>>} \cup {<<k>> : k \in 1 .. 39}

Boresights ==
  {None,
   Arr3(TESS_ras[1], TESS_decs[1], TESS_rolls[1]),
   Arr3(TESS_ras[28], TESS_decs[28], TESS_rolls[28])}

TargetLists ==
  { <<>>,
    <<[ra |-> 84291200, dec |-> -80469100]>>,
    <<[ra |-> 352684400, dec |-> -64853100]>>,
    <<[ra |-> 352684400, dec |-> -64853100], [ra |-> 84291200, dec |-> -80469100]>>,
    <<[ra |-> 0, dec |-> 0]>> }

\* ---------------------------------------------------------------------
\* State
\* ---------------------------------------------------------------------
VARIABLES
  pc,               \* position of the running SectFromCoords call, or "idle"
  args,             \* SectFromCoords: the arguments of the call
  coord, tic,       \* SectFromCoords: the locals of the same names
  scinfo, ticdat, idxSec, findAny, sects,
  ret,              \* outcome of the last call: returned value or exception
  requests,         \* HTTPS exchanges issued by the last call, in order
  responses,        \* ticIdSearch: the archive's answers so far (last = outData)
  pixCalls,         \* SectFromCoords: the radec2pix calls made, in order
  stdout,           \* lines printed by the last call
  TSPD,             \* class attributes of TESS_Spacecraft_Pointing_Data
  parm_dict_list,   \* class attribute Levine_FPG.parm_dict_list
  fs,               \* calibration files on disk
  cat, fpg, pix     \* objects held by the caller: a catalog, a model, a radec2pix result

vars ==
  <<pc, args, coord, tic, scinfo, ticdat, idxSec, findAny, sects, ret, requests, responses,
    pixCalls, stdout, TSPD, parm_dict_list, fs, cat, fpg, pix>>

locals == <<args, coord, tic, scinfo, ticdat, idxSec, findAny, sects>>

Returned(call, value) == [call |-> call, kind |-> "return", exc |-> NoExc, value |-> value]

Raised(call, exc) == [call |-> call, kind |-> "raise", exc |-> exc, value |-> None]

Init ==
  /\ pc = "idle"
  /\ args = None /\ coord = None /\ tic = None /\ scinfo = None /\ ticdat = None
  /\ idxSec = 0 /\ findAny = FALSE /\ sects = <<>>
  /\ ret = None /\ requests = <<>> /\ responses = <<>> /\ pixCalls = <<>> /\ stdout = <<>>
  /\ TSPD = ClassTables
  /\ parm_dict_list = Arr4(<<>>, <<>>, <<>>, <<>>)
  /\ fs \in FileSystems
  /\ cat = None /\ fpg = None /\ pix = None

\* the caller invokes SectFromCoords(coord=c, tic=t), holding no other object
CallSectFromCoords(c, t) ==
  /\ pc = "idle"
  /\ pc' = "assert"
  /\ args' = [coord |-> c, tic |-> t]
  /\ coord' = c /\ tic' = t
  /\ scinfo' = None /\ ticdat' = None /\ idxSec' = 0 /\ findAny' = FALSE /\ sects' = <<>>
  /\ ret' = None /\ requests' = <<>> /\ responses' = <<>> /\ pixCalls' = <<>> /\ stdout' = <<>>
  /\ cat' = None /\ fpg' = None /\ pix' = None
  /\ UNCHANGED <<TSPD, parm_dict_list, fs>>

\* line 956 with the assert compiled away
AssertStepUnchecked ==
  /\ pc = "assert"
  /\ pc' = "catalog"
  /\ UNCHANGED <<locals, ret, requests, responses, pixCalls, stdout, TSPD, parm_dict_list, fs,
                 cat, fpg, pix>>

\* line 956
AssertStep ==
  /\ pc = "assert"
  /\ IF ~ ~(coord = None /\ tic = None)
     THEN pc' = "idle" /\ ret' = Raised("SectFromCoords", "AssertionError")
     ELSE pc' = "catalog" /\ UNCHANGED ret
  /\ UNCHANGED <<locals, requests, responses, pixCalls, stdout, TSPD, parm_dict_list, fs,
                 cat, fpg, pix>>

\* line 957
BuildCatalog ==
  /\ pc = "catalog"
  /\ \E r \in {TESS_Spacecraft_Pointing_Data(TSPD, parm_dict_list, fs, None, None)} :
         /\ TSPD' = r.cls
         /\ parm_dict_list' = r.pdl
         /\ stdout' = stdout \o r.out
         /\ scinfo' = r.obj
         /\ IF r.exc # NoExc
            THEN pc' = "idle" /\ ret' = Raised("SectFromCoords", r.exc)
            ELSE pc' = "lookup" /\ UNCHANGED ret
  /\ UNCHANGED <<args, coord, tic, ticdat, idxSec, findAny, sects, requests, responses,
                 pixCalls, fs, cat, fpg, pix>>

\* lines 958-960 with ticConeSearch returning the first row of the data
ConeSearchFirstRow ==
  /\ pc = "lookup" /\ tic = None
  /\ \E request \in {ConeRequest(coord)} :
     \E data \in {ArchiveData(request)} :
         /\ requests' = Append(requests, mastQuery(request, None))
         /\ IF Len(data) = 0
            THEN /\ pc' = "idle" /\ ret' = Raised("SectFromCoords", "KeyError")
                 /\ UNCHANGED <<ticdat, tic>>
            ELSE /\ ticdat' = data[1]
                 /\ tic' = <<ticdat'.ID>>
                 /\ pc' = "sectors" /\ UNCHANGED ret
  /\ UNCHANGED <<args, coord, scinfo, idxSec, findAny, sects, responses, pixCalls, stdout,
                 TSPD, parm_dict_list, fs, cat, fpg, pix>>

\* lines 958-960 with ticConeSearch (lines 896-912)
ConeSearch ==
  /\ pc = "lookup" /\ tic = None
  /\ \E request \in {ConeRequest(coord)} :
     \E data \in {ArchiveData(request)} :
         /\ requests' = Append(requests, mastQuery(request, None))
         /\ IF Len(data) = 0
            THEN /\ pc' = "idle" /\ ret' = Raised("SectFromCoords", "KeyError")
                 /\ UNCHANGED <<ticdat, tic>>
            ELSE /\ ticdat' = data[ArgMin(data, 1, 1)]
                 /\ tic' = <<ticdat'.ID>>
                 /\ pc' = "sectors" /\ UNCHANGED ret
  /\ UNCHANGED <<args, coord, scinfo, idxSec, findAny, sects, responses, pixCalls, stdout,
                 TSPD, parm_dict_list, fs, cat, fpg, pix>>

\* ticIdSearch with the while loop dropped: one request, whatever its status
IdSearchPollOnce ==
  /\ pc = "lookup" /\ tic # None
  /\ Len(responses) < MaxPoll
  /\ \E status \in Statuses :
       LET request == IdRequest(tic)
           outData == [status |-> status,
                       data |-> IF status = "COMPLETE" THEN ArchiveData(request) ELSE <<>>]
       IN  /\ requests' = Append(requests, mastQuery(request, None))
           /\ responses' = Append(responses, outData)
           /\ pc' = "idreturn"
  /\ UNCHANGED <<locals, ret, pixCalls, stdout, TSPD, parm_dict_list, fs, cat, fpg, pix>>

\* ticIdSearch with a retry cap: the loop gives up after the second request
IdSearchPollCapped ==
  /\ pc = "lookup" /\ tic # None
  /\ Len(responses) < MaxPoll
  /\ \E status \in Statuses :
       LET request == IdRequest(tic)
           outData == [status |-> status,
                       data |-> IF status = "COMPLETE" THEN ArchiveData(request) ELSE <<>>]
       IN  /\ requests' = Append(requests, mastQuery(request, None))
           /\ responses' = Append(responses, outData)
           /\ pc' = IF outData.status # "EXECUTING" \/ Len(responses) >= 1
                    THEN "idreturn" ELSE "lookup"
  /\ UNCHANGED <<locals, ret, pixCalls, stdout, TSPD, parm_dict_list, fs, cat, fpg, pix>>

\* one iteration of the loop of ticIdSearch (lines 938-949)
IdSearchPoll ==
  /\ pc = "lookup" /\ tic # None
  /\ Len(responses) < MaxPoll
  /\ \E status \in Statuses :
       LET request == IdRequest(tic)
           outData == [status |-> status,
                       data |-> IF status = "COMPLETE" THEN ArchiveData(request) ELSE <<>>]
       IN  /\ requests' = Append(requests, mastQuery(request, None))
           /\ responses' = Append(responses, outData)
           /\ pc' = IF outData.status # "EXECUTING" THEN "idreturn" ELSE "lookup"
  /\ UNCHANGED <<locals, ret, pixCalls, stdout, TSPD, parm_dict_list, fs, cat, fpg, pix>>

\* lines 950-953 of ticIdSearch, then lines 962-964 with the coordinate taken
\* from the record whether or not the caller gave one
IdSearchReturnRederive ==
  /\ pc = "idreturn"
  /\ LET outData == responses[Len(responses)]
     IN  /\ stdout' = Append(stdout, "outData")
         /\ IF Len(outData.data) = 0
            THEN /\ pc' = "idle" /\ ret' = Raised("SectFromCoords", "IndexError")
                 /\ UNCHANGED <<ticdat, coord>>
            ELSE /\ ticdat' = outData.data[1]
                 /\ coord' = [ra |-> ticdat'.ra, dec |-> ticdat'.dec]
                 /\ pc' = "sectors" /\ UNCHANGED ret
  /\ UNCHANGED <<args, tic, scinfo, idxSec, findAny, sects, requests, responses, pixCalls,
                 TSPD, parm_dict_list, fs, cat, fpg, pix>>

\* lines 950-953 of ticIdSearch, then lines 962-964
IdSearchReturn ==
  /\ pc = "idreturn"
  /\ LET outData == responses[Len(responses)]
     IN  /\ stdout' = Append(stdout, "outData")
         /\ IF Len(outData.data) = 0
            THEN /\ pc' = "idle" /\ ret' = Raised("SectFromCoords", "IndexError")
                 /\ UNCHANGED <<ticdat, coord>>
            ELSE /\ ticdat' = outData.data[1]
                 /\ IF coord = None
                    THEN IF "u" \in ModuleGlobals
                         THEN /\ coord' = [ra |-> ticdat'.ra, dec |-> ticdat'.dec]
                              /\ pc' = "sectors" /\ UNCHANGED ret
                         ELSE /\ pc' = "idle" /\ ret' = Raised("SectFromCoords", "NameError")
                              /\ UNCHANGED coord
                    ELSE pc' = "sectors" /\ UNCHANGED <<ret, coord>>
  /\ UNCHANGED <<args, tic, scinfo, idxSec, findAny, sects, requests, responses, pixCalls,
                 TSPD, parm_dict_list, fs, cat, fpg, pix>>

\* one iteration of the loop over the sectors (lines 968-980); idxSec counts
\* from 0 as enumerate does, the sequences are indexed from 1
SectorStep ==
  /\ pc = "sectors" /\ idxSec < Len(scinfo.sectors)
  /\ \E curSec \in {scinfo.sectors[idxSec + 1]} :
     \E r \in {radec2pix(scinfo.fpgObjs[idxSec + 1], <<coord.ra>>, <<coord.dec>>)} :
     \E h \in {HitLoop(r.res, curSec, 1, [findAny |-> findAny, sects |-> sects])} :
         /\ pixCalls' = Append(pixCalls, [idxSec |-> idxSec, curSec |-> curSec, res |-> r.res])
         /\ stdout' = stdout \o r.out
         /\ findAny' = h.findAny
         /\ sects' = h.sects
  /\ idxSec' = idxSec + 1
  /\ UNCHANGED <<pc, args, coord, tic, scinfo, ticdat, ret, requests, responses, TSPD,
                 parm_dict_list, fs, cat, fpg, pix>>

\* line 981
Return ==
  /\ pc = "sectors" /\ idxSec = Len(scinfo.sectors)
  /\ pc' = "idle"
  /\ ret' = Returned("SectFromCoords", [tic |-> tic, ticdat |-> ticdat, sects |-> sects])
  /\ UNCHANGED <<locals, requests, responses, pixCalls, stdout, TSPD, parm_dict_list, fs,
                 cat, fpg, pix>>

\* the caller holds nothing of an earlier call: no returned value, no object
Clean == pc = "idle" /\ ret = None /\ cat = None /\ fpg = None /\ pix = None

ResetLocals ==
  /\ args' = None /\ coord' = None /\ tic' = None /\ scinfo' = None /\ ticdat' = None
  /\ idxSec' = 0 /\ findAny' = FALSE /\ sects' = <<>>
  /\ requests' = <<>> /\ responses' = <<>> /\ pixCalls' = <<>>

\* the caller constructs TESS_Spacecraft_Pointing_Data(trySector, fpgParmFileList)
NewCatalog(trySector, fpgParmFileList) ==
  /\ Clean
  /\ \E r \in {TESS_Spacecraft_Pointing_Data(TSPD, parm_dict_list, fs, trySector, fpgParmFileList)} :
         /\ TSPD' = r.cls
         /\ parm_dict_list' = r.pdl
         /\ stdout' = r.out
         /\ cat' = r.obj
         /\ ret' = IF r.exc # NoExc THEN Raised("TESS_Spacecraft_Pointing_Data", r.exc)
                   ELSE Returned("TESS_Spacecraft_Pointing_Data",
                                 [trySector |-> trySector, solverCalls |-> r.solverCalls])
  /\ ResetLocals
  /\ fpg' = None /\ pix' = None
  /\ UNCHANGED <<pc, fs>>

\* the caller constructs Levine_FPG(sc_ra_dec_roll, fpg_file_list)
NewFPG(sc_ra_dec_roll, fpg_file_list) ==
  /\ Clean
  /\ \E r \in {Levine_FPG(parm_dict_list, fs, sc_ra_dec_roll, fpg_file_list)} :
         /\ parm_dict_list' = r.pdl
         /\ stdout' = r.out
         /\ fpg' = r.obj
         /\ ret' = IF r.exc # NoExc THEN Raised("Levine_FPG", r.exc)
                   ELSE Returned("Levine_FPG", [sc_ra_dec_roll |-> sc_ra_dec_roll,
                                                fpg_file_list |-> fpg_file_list])
  /\ ResetLocals
  /\ cat' = None /\ pix' = None
  /\ UNCHANGED <<pc, TSPD, fs>>

\* the same call, clearing the pointing of the model once it has mapped
CallRadec2pixConsuming(targets) ==
  /\ pc = "idle" /\ fpg # None
  /\ \E r \in {radec2pix(fpg, [i \in 1 .. Len(targets) |-> targets[i].ra],
                            [i \in 1 .. Len(targets) |-> targets[i].dec])} :
         /\ pix' = [targets |-> targets, res |-> r.res]
         /\ stdout' = r.out
         /\ ret' = Returned("radec2pix", r.res)
  /\ fpg' = [fpg EXCEPT !.havePointing = FALSE]
  /\ ResetLocals
  /\ UNCHANGED <<pc, TSPD, parm_dict_list, fs, cat>>

\* the caller maps a list of targets through the model it holds
CallRadec2pix(targets) ==
  /\ pc = "idle" /\ fpg # None
  /\ \E r \in {radec2pix(fpg, [i \in 1 .. Len(targets) |-> targets[i].ra],
                            [i \in 1 .. Len(targets) |-> targets[i].dec])} :
         /\ pix' = [targets |-> targets, res |-> r.res]
         /\ stdout' = r.out
         /\ ret' = Returned("radec2pix", r.res)
  /\ ResetLocals
  /\ UNCHANGED <<pc, TSPD, parm_dict_list, fs, cat, fpg>>

\* the caller invokes sky_to_sc_mat(sc_ra_dec_roll) on the model it holds
\* (lines 444-455): the method assigns self.rmat1 and nothing else
CallSkyToScMat(sc_ra_dec_roll) ==
  /\ pc = "idle" /\ fpg # None
  /\ fpg' = [fpg EXCEPT !.rmat1 = sky_to_sc_mat(sc_ra_dec_roll)]
  /\ ret' = Returned("sky_to_sc_mat", [sc_ra_dec_roll |-> sc_ra_dec_roll])
  /\ stdout' = <<>>
  /\ ResetLocals
  /\ UNCHANGED <<pc, TSPD, parm_dict_list, fs, cat, pix>>

\* the caller drops what the last call returned and the objects it holds; the
\* class attributes and the files stay
Discard ==
  /\ pc = "idle" /\ ret # None
  /\ ret' = None /\ stdout' = <<>>
  /\ cat' = None /\ fpg' = None /\ pix' = None
  /\ ResetLocals
  /\ UNCHANGED <<pc, TSPD, parm_dict_list, fs>>

Next ==
  \/ \E c \in Targets \cup {None}, t \in TicIds \cup {None} : CallSectFromCoords(c, t)
  \/ AssertStep
  \/ BuildCatalog
  \/ ConeSearch
  \/ IdSearchPoll
  \/ IdSearchReturn
  \/ SectorStep
  \/ Return
  \/ \E t \in TrySectors, fl \in FileLists : NewCatalog(t, fl)
  \/ \E b \in Boresights, fl \in FileLists : NewFPG(b, fl)
  \/ \E tl \in TargetLists : CallRadec2pix(tl)
  \/ Discard

Spec == Init /\ [][Next]_vars

\* ---------------------------------------------------------------------
\* Properties of SectFromCoords and the archive searches
\* ---------------------------------------------------------------------
\* the last response of the identifier search
LastResponse == responses[Len(responses)]

\* the number of leading 'EXECUTING' responses
LeadingExecuting ==
  CHOOSE n \in 0 .. Len(responses) :
    /\ \A i \in 1 .. n : responses[i].status = "EXECUTING"
    /\ n = Len(responses) \/ responses[n + 1].status # "EXECUTING"

\* a SectFromCoords call is running or was the last call made
InCall == args # None

NeitherGiven == InCall /\ args.coord = None /\ args.tic = None

\* the call has ended, its outcome is in ret
Ended == InCall /\ pc = "idle" /\ ret # None

\* C1: a call with neither a coordinate nor an identifier stops at the
\* precondition check: it never gets past line 956, it has issued no archive
\* request and built no catalog (hence no focal plane model) and run no pixel
\* mapping, and it ends by raising AssertionError, returning no tuple.
C1_PreconditionRejects ==
  NeitherGiven =>
    /\ pc \in {"assert", "idle"}
    /\ requests = <<>> /\ responses = <<>>
    /\ scinfo = None /\ pixCalls = <<>> /\ stdout = <<>>
    /\ pc = "idle" => ret = Raised("SectFromCoords", "AssertionError")

C1_Witness == NeitherGiven /\ Ended /\ ret.exc = "AssertionError"

\* C2: a call with only an identifier for which the archive returns a record
\* completes normally: the coordinate is the record's ra and dec, every sector
\* is mapped and the tuple (identifier, record, sector list) is returned.
C2_IdentifierOnlyCompletes ==
  (Ended /\ args.coord = None /\ args.tic # None
     /\ responses # <<>> /\ Len(LastResponse.data) > 0)
  => /\ ret.kind = "return"
     /\ coord = [ra |-> LastResponse.data[1].ra, dec |-> LastResponse.data[1].dec]
     /\ Len(pixCalls) = Len(TESS_sectors)
     /\ ret.value = [tic |-> args.tic, ticdat |-> LastResponse.data[1], sects |-> sects]

\* the call got past the precondition check
Passed == InCall /\ ~NeitherGiven /\ pc # "assert"

\* the archive lookup of the call is over (the catalog was built before it)
LookupOver ==
  Passed /\ scinfo # None /\ (pc \in {"idreturn", "sectors"} \/ (pc = "idle" /\ ret # None))

\* C3: a call past the precondition runs exactly one of the two lookups: every
\* request goes to the cone service when no identifier was given and to the
\* filtered (identifier) service otherwise, and there is at least one once the
\* lookup is over; after a cone search the identifier is the ID of the record
\* found, which is returned; a supplied identifier and a supplied coordinate
\* are kept as given, and each radec2pix call maps the supplied coordinate.
C3_OneLookup ==
  Passed =>
    /\ \A i \in 1 .. Len(requests) :
         requests[i].body.service =
           IF args.tic = None THEN "Mast.Catalogs.Tic.Cone" ELSE "Mast.Catalogs.Filtered.Tic"
    /\ LookupOver => requests # <<>>
    /\ args.tic = None =>
         /\ Len(requests) <= 1 /\ responses = <<>>
         /\ ticdat # None => tic = <<ticdat.ID>>
    /\ args.tic # None => tic = args.tic
    /\ args.coord # None =>
         /\ coord = args.coord
         /\ pixCalls # <<>> =>
              pixCalls[Len(pixCalls)].res
                = radec2pix(scinfo.fpgObjs[Len(pixCalls)], <<args.coord.ra>>, <<args.coord.dec>>).res
    /\ (Ended /\ ret.kind = "return") =>
         ret.value.tic = tic /\ ret.value.ticdat = ticdat

\* both given, the record lies elsewhere than the supplied coordinate, and the
\* call returned sectors
C3_Witness ==
  /\ Ended /\ ret.kind = "return"
  /\ args.coord # None /\ args.tic # None
  /\ args.coord # [ra |-> ticdat.ra, dec |-> ticdat.dec]
  /\ sects # <<>>

\* a call that runs the identifier search
IdCall == InCall /\ args.tic # None

\* C4: the identifier search sends the same request again while the latest
\* status is 'EXECUTING' and stops at the first other status: while it polls
\* every response so far is 'EXECUTING'; once it has left the loop the last
\* status is not 'EXECUTING' and the requests number 1 + the leading
\* 'EXECUTING' responses; the record it returns is the first row of the last
\* response's data.
C4_Polling ==
  IdCall =>
    /\ Len(requests) = Len(responses)
    /\ \A i \in 1 .. Len(requests) : requests[i] = mastQuery(IdRequest(args.tic), None)
    /\ pc \in {"assert", "catalog", "lookup"} => LeadingExecuting = Len(responses)
    /\ pc \in {"idreturn", "sectors"} \/ (pc = "idle" /\ responses # <<>>) =>
         /\ responses # <<>>
         /\ LastResponse.status # "EXECUTING"
         /\ Len(requests) = 1 + LeadingExecuting
    /\ pc = "sectors" => ticdat # None
    /\ ticdat # None => ticdat = LastResponse.data[1]

\* two 'EXECUTING' answers, then a record: three requests
C4_Witness ==
  /\ IdCall /\ pc = "sectors" /\ Len(requests) = 3
  /\ responses[1].status = "EXECUTING" /\ responses[2].status = "EXECUTING"
  /\ ticdat = LastResponse.data[1]

\* C5: the polling loop has no retry cap: after any number N of 'EXECUTING'
\* answers (and nothing else) the search has not returned, N requests were
\* sent and the next one is due.
C5_NoRetryCap ==
  (IdCall /\ responses # <<>> /\ \A i \in 1 .. Len(responses) : responses[i].status = "EXECUTING")
  => /\ pc = "lookup" /\ ret = None /\ ticdat = None
     /\ Len(requests) = Len(responses)
     /\ Len(responses) < MaxPoll => ENABLED IdSearchPoll

C5_Witness ==
  /\ IdCall /\ pc = "lookup" /\ Len(responses) = MaxPoll
  /\ \A i \in 1 .. Len(responses) : responses[i].status = "EXECUTING"

\* ---------------------------------------------------------------------
\* The acceptance window on synthetic hits
\* ---------------------------------------------------------------------
\* CCD-local positions around the four bounds of the window (pixels * PX)
HitCoords ==
  { -46 * PX, -1 * PX - 1, -1 * PX, -1 * PX + 1, 0, 1024 * PX,
    2048 * PX - 1, 2048 * PX, 2048 * PX + 1, 3000 * PX }

\* one-row results of radec2pix: any camera, CCD and FITS position
SyntheticHits ==
  { [inCamera |-> <<cam>>, ccdNum |-> <<ccd>>, fitsxpos |-> <<fits>>, fitsypos |-> <<fits>>,
     ccdxpos |-> <<x>>, ccdypos |-> <<y>>] :
      cam \in {1, 4}, ccd \in {1, 4}, fits \in {-5 * PX, 2100 * PX}, x \in HitCoords,
      y \in HitCoords }

InitHit ==
  /\ pc = "hit"
  /\ pix \in {[targets |-> <<>>, res |-> h] : h \in SyntheticHits}
  /\ args = None /\ coord = None /\ tic = None /\ scinfo = None /\ ticdat = None
  /\ idxSec = 0 /\ findAny = FALSE /\ sects = <<>>
  /\ ret = None /\ requests = <<>> /\ responses = <<>> /\ pixCalls = <<>> /\ stdout = <<>>
  /\ TSPD = ClassTables
  /\ parm_dict_list = Arr4(<<>>, <<>>, <<>>, <<>>)
  /\ fs = NoFiles
  /\ cat = None /\ fpg = None

\* lines 971-980 run on the hit, as for sector 1
ApplyHitLoop ==
  /\ pc = "hit"
  /\ \E h \in {HitLoop(pix.res, 1, 1, [findAny |-> findAny, sects |-> sects])} :
         findAny' = h.findAny /\ sects' = h.sects
  /\ pc' = "idle"
  /\ UNCHANGED <<args, coord, tic, scinfo, ticdat, idxSec, ret, requests, responses, pixCalls,
                 stdout, TSPD, parm_dict_list, fs, cat, fpg, pix>>

SpecHit == InitHit /\ [][ApplyHitLoop]_vars

\* the window as the claim words it, on PX-scaled positions
InWindow(ccdX, ccdY) ==
  /\ 44 * PX < ccdX + 45 * PX /\ ccdX + 45 * PX < 2093 * PX
  /\ 0 < ccdY + 1 * PX /\ ccdY + 1 * PX < 2049 * PX

\* the hit loop has run on the synthetic hit
HitApplied == pc = "idle" /\ pix # None /\ pix.targets = <<>> /\ ret = None

\* C6: a hit is accepted (its sector appended, findAny set) exactly when
\* 44 < ccdX + 45 < 2093 and 0 < ccdY + 1 < 2049, all bounds strict, whatever
\* its camera number, CCD number and FITS position.
C6_AcceptanceWindow ==
  HitApplied =>
    IF InWindow(pix.res.ccdxpos[1], pix.res.ccdypos[1])
    THEN sects = <<1>> /\ findAny = TRUE
    ELSE sects = <<>> /\ findAny = FALSE

\* a hit on the lower x bound (ccdX = -1, x = 44) with y inside: refused
C6_Witness ==
  /\ HitApplied /\ pix.res.ccdxpos[1] = -1 * PX /\ pix.res.ccdypos[1] = 0
  /\ sects = <<>>

\* ---------------------------------------------------------------------
\* Properties of the sector loop and of radec2pix
\* ---------------------------------------------------------------------
CountIn(seq, v) == Cardinality({i \in 1 .. Len(seq) : seq[i] = v})

\* the rows of a radec2pix result that lie in the acceptance window
AcceptedRows(res) ==
  Cardinality({j \in 1 .. Len(res.inCamera) : InWindow(res.ccdxpos[j], res.ccdypos[j])})

\* C7: the sector list holds each sector mapped so far as many times as its
\* radec2pix result has rows in the acceptance window (none: absent; two
\* cameras: twice) and no other sector, in non-decreasing order; the list
\* returned is that list.
C7_SectorMultiplicity ==
  (InCall /\ scinfo # None) =>
    /\ \A k \in 1 .. Len(pixCalls) :
         CountIn(sects, pixCalls[k].curSec) = AcceptedRows(pixCalls[k].res)
    /\ \A i \in 1 .. Len(sects) : \E k \in 1 .. Len(pixCalls) : pixCalls[k].curSec = sects[i]
    /\ \A i \in 1 .. Len(sects) - 1 : sects[i] <= sects[i + 1]
    /\ findAny = (sects # <<>>)
    /\ (Ended /\ ret.kind = "return") => ret.value.sects = sects

\* a returned list with one sector several times and another sector absent
C7_Witness ==
  /\ Ended /\ ret.kind = "return"
  /\ \E s \in 1 .. Len(TESS_sectors) : CountIn(ret.value.sects, s) >= 2
  /\ \E s \in 1 .. Len(TESS_sectors) : CountIn(ret.value.sects, s) = 0

\* the archive lookup of the call found a record
FoundRecord ==
  \/ InCall /\ args.tic = None /\ ticdat # None
  \/ IdCall /\ responses # <<>> /\ Len(LastResponse.data) > 0

\* C8: a call past the precondition whose lookup found a record ends having
\* built the catalog of all 39 sectors and called radec2pix once per sector,
\* sectors 1..39 in ascending order.
C8_EverySectorMapped ==
  (Ended /\ Passed /\ FoundRecord) =>
    /\ scinfo # None /\ Len(scinfo.sectors) = 39
    /\ Len(pixCalls) = 39
    /\ \A k \in 1 .. Len(pixCalls) : pixCalls[k].curSec = k /\ pixCalls[k].idxSec = k - 1

\* C8, for the calls that reach the sector loop: the catalog built at line
\* 957 holds sectors 1..39 with a pointed model each, whatever catalog was
\* constructed before; the k-th radec2pix call is on sector k, and the call
\* returns after the 39th.
C8_LoopCoversCatalog ==
  (Passed /\ scinfo # None) =>
    /\ Len(scinfo.sectors) = 39 /\ Len(scinfo.fpgObjs) = 39
    /\ \A k \in 1 .. 39 : scinfo.sectors[k] = k /\ scinfo.fpgObjs[k].havePointing
    /\ Len(pixCalls) = idxSec
    /\ \A k \in 1 .. Len(pixCalls) : pixCalls[k].curSec = k /\ pixCalls[k].idxSec = k - 1
    /\ (Ended /\ ret.kind = "return") => Len(pixCalls) = 39

\* C9: a model has havePointing exactly when it was constructed with a
\* boresight triple; radec2pix on a model without pointing returns normally
\* with six empty arrays and prints 'Spacecraft Pointing Not specified!', for
\* any list of targets, and prints nothing of the kind on a pointed model.
C9_NoPointing ==
  /\ (ret # None /\ ret.call = "Levine_FPG" /\ ret.kind = "return") =>
       fpg.havePointing = (ret.value.sc_ra_dec_roll # None)
  /\ (ret # None /\ ret.call = "radec2pix") =>
       /\ ret.kind = "return" /\ ret.value = pix.res
       /\ IF fpg.havePointing
          THEN stdout = <<>>
          ELSE ret.value = EmptyPix /\ stdout = <<"Spacecraft Pointing Not specified!">>

\* two targets handed to a model built without a boresight
C9_Witness ==
  /\ ret # None /\ ret.call = "radec2pix" /\ ~fpg.havePointing
  /\ Len(pix.targets) = 2 /\ stdout # <<>>

\* the camera-frame position of target t passes star_in_fov in camera icam
PassesFov(self, t, icam) ==
  With(cartToSphere(matvec(self.rmat4[icam], sphereToCart(t.ra, t.dec))), LAMBDA sph :
       star_in_fov(sph.ra, sph.dec))

\* the camera numbers of the (target, camera) pairs that pass, target-major
\* then camera ascending
RECURSIVE ExpectedCams(_, _, _)
ExpectedCams(self, targets, i) ==
  IF i > Len(targets) THEN <<>>
  ELSE SelectSeq(<<1, 2, 3, 4>>, LAMBDA c : PassesFov(self, targets[i], c - 1))
         \o ExpectedCams(self, targets, i + 1)

\* C10: on a pointed model radec2pix returns six arrays of one length with
\* one row per (target, camera) pair passing star_in_fov, in target-major and
\* camera-ascending order: at most 4 rows per target, camera and CCD numbers
\* in 1..4.
C10_Rows ==
  (ret # None /\ ret.call = "radec2pix" /\ fpg.havePointing) =>
    /\ \A f \in {"ccdNum", "fitsxpos", "fitsypos", "ccdxpos", "ccdypos"} :
         Len(pix.res[f]) = Len(pix.res.inCamera)
    /\ pix.res.inCamera = ExpectedCams(fpg, pix.targets, 1)
    /\ Len(pix.res.inCamera) <= 4 * Len(pix.targets)
    /\ \A j \in 1 .. Len(pix.res.inCamera) :
         pix.res.inCamera[j] \in 1 .. 4 /\ pix.res.ccdNum[j] \in 1 .. 4

\* one target seen by two cameras: two rows
C10_Witness ==
  /\ ret # None /\ ret.call = "radec2pix" /\ fpg.havePointing
  /\ Len(pix.targets) = 1 /\ Len(pix.res.inCamera) = 2
  /\ pix.res.inCamera[1] < pix.res.inCamera[2]


\* ---------------------------------------------------------------------
\* Properties of the construction of models and catalogs
\* ---------------------------------------------------------------------
\* the file read for camera icam under the list fl
FileOf(fl, icam) == IF fl = None THEN default_fpg_file_list[icam] ELSE fl[icam]

\* the file is a table that holds every parameter the parser looks up
Loadable(files, name) ==
  /\ name \in DOMAIN files /\ files[name] # None
  /\ files[name].kind = "table" /\ RequiredKeys \subseteq DOMAIN files[name].parms

\* the file is a table that lacks a parameter
LacksKeys(files, name) ==
  /\ name \in DOMAIN files /\ files[name] # None
  /\ files[name].kind = "table" /\ ~(RequiredKeys \subseteq DOMAIN files[name].parms)

\* the table a camera is to end with: its file's when loadable, else the
\* hard-coded one of its index
SourceParms(files, fl, icam) ==
  IF Loadable(files, FileOf(fl, icam)) THEN files[FileOf(fl, icam)].parms ELSE HardCoded[icam]

\* the eight parameter arrays of obj hold, for camera icam, the values of pd
HoldsParms(obj, icam, pd) ==
  /\ obj.eulcam[icam] = Arr3(pd["ang1_cam1"], pd["ang2_cam1"], pd["ang3_cam1"])
  /\ obj.optcon[icam] = Arr6(pd["fl_cam1"], pd["opt_coef1_cam1"], pd["opt_coef2_cam1"],
                             pd["opt_coef3_cam1"], pd["opt_coef4_cam1"], pd["opt_coef5_cam1"])
  /\ obj.asymang[icam] = pd["asymang_cam1"]
  /\ obj.asymfac[icam] = pd["asymfac_cam1"]
  /\ \A iccd \in Ccds :
       /\ obj.ccdxy0[icam][iccd] = Arr2(pd[CcdKey("x0", iccd)], pd[CcdKey("y0", iccd)])
       /\ obj.pixsz[icam][iccd] = Arr2(pd[CcdKey("pix_x", iccd)], pd[CcdKey("pix_y", iccd)])
       /\ obj.ccdang[icam][iccd] = pd[CcdKey("ang", iccd)]
       /\ obj.ccdtilt[icam][iccd] = Arr2(pd[CcdKey("tilt_x", iccd)], pd[CcdKey("tilt_y", iccd)])

\* a Levine_FPG construction has just ended
FpgBuilt == ret # None /\ ret.call = "Levine_FPG"

\* C11: constructing a Levine_FPG never aborts because of a calibration
\* file: every construction returns, and each camera holds its file's values
\* when the file loads and the hard-coded table of its index when the file is
\* absent, unreadable or lacks required keys.
C11_NeverAborts ==
  FpgBuilt =>
    /\ ret.kind = "return"
    /\ \A icam \in Cams : HoldsParms(fpg, icam, SourceParms(fs, ret.value.fpg_file_list, icam))

\* C11, for the files the code does recover from: a construction that returns
\* holds per camera the file's values or the hard-coded table; a construction
\* aborts only with KeyError and only when a listed file is a table lacking a
\* required key.
C11_FallbackPerCamera ==
  /\ (FpgBuilt /\ ret.kind = "return") =>
       /\ \A icam \in Cams : HoldsParms(fpg, icam, SourceParms(fs, ret.value.fpg_file_list, icam))
       /\ \A icam \in Cams : ~LacksKeys(fs, FileOf(ret.value.fpg_file_list, icam))
  /\ (FpgBuilt /\ ret.kind = "raise") => ret.exc = "KeyError" /\ fpg = None


\* a catalog construction has just returned
CatBuilt == ret # None /\ ret.call = "TESS_Spacecraft_Pointing_Data" /\ ret.kind = "return"

\* obj is the pointed model of the boresight (ra, dec, roll)
ModelOf(obj, ra, dec, roll) ==
  /\ obj.havePointing
  /\ obj.rmat1 = sky_to_sc_mat(Arr3(ra, dec, roll))
  /\ \A icam \in Cams : obj.rmat4[icam] = matmul(sc_to_cam_mat(obj.eulcam[icam]), obj.rmat1)

\* the pointing arrays and fpgObjs of catalog c have one length, and
\* fpgObjs[i] is the model of the boresight of sectors[i]
Aligned(c) ==
  /\ Len(c.ras) = Len(c.sectors) /\ Len(c.decs) = Len(c.sectors)
  /\ Len(c.rolls) = Len(c.sectors) /\ Len(c.fpgObjs) = Len(c.sectors)
  /\ \A i \in 1 .. Len(c.sectors) :
       /\ c.sectors[i] \in 1 .. Len(TESS_sectors)
       /\ c.ras[i] = TESS_ras[c.sectors[i]] /\ c.decs[i] = TESS_decs[c.sectors[i]]
       /\ c.rolls[i] = TESS_rolls[c.sectors[i]]
       /\ ModelOf(c.fpgObjs[i], c.ras[i], c.decs[i], c.rolls[i])

\* C12: a catalog constructed with trySector = k, k in 1..39, retains the
\* one sector k with the tabulated ra, dec and roll of sector k and holds the
\* one model built from that boresight; every catalog, restricted or not, has
\* fpgObjs[i] the model of sectors[i].
C12_SingleSector ==
  /\ (CatBuilt /\ ret.value.trySector # None /\ ret.value.trySector[1] \in 1 .. 39) =>
       /\ cat.sectors = <<ret.value.trySector[1]>>
       /\ cat.ras = <<TESS_ras[ret.value.trySector[1]]>>
       /\ cat.decs = <<TESS_decs[ret.value.trySector[1]]>>
       /\ cat.rolls = <<TESS_rolls[ret.value.trySector[1]]>>
       /\ Len(cat.fpgObjs) = 1
  /\ CatBuilt => Aligned(cat)
  /\ (pc = "lookup" /\ scinfo # None) => Aligned(scinfo)

\* the catalog of sector 5 alone: one model, and not the model of sector 1
C12_Witness ==
  /\ CatBuilt /\ ret.value.trySector = <<5>>
  /\ cat.sectors = <<5>> /\ Len(cat.fpgObjs) = 1
  /\ cat.fpgObjs[1].rmat1 # sky_to_sc_mat(Arr3(TESS_ras[1], TESS_decs[1], TESS_rolls[1]))


\* p is a leading part of q
IsPrefix(p, q) == Len(p) <= Len(q) /\ SubSeq(q, 1, Len(p)) = p

ConeCall == InCall /\ args.tic = None /\ args.coord # None

\* the 'data' array the archive returns for the cone request of the call
ConeData == ArchiveData(ConeRequest(args.coord))

\* C15: ticConeSearch returns a record only when the 'data' array is
\* non-empty, and then a row of the array whose Tmag is at most the Tmag of
\* every row; with an empty array the search fails, no record is returned and
\* nothing is mapped.
C15_BrightestRow ==
  /\ (ConeCall /\ requests = <<>>) => ticdat = None
  /\ (ConeCall /\ requests # <<>>) =>
       IF Len(ConeData) = 0
       THEN /\ ticdat = None /\ Ended /\ ret.kind = "raise" /\ ret.exc = "KeyError"
            /\ pixCalls = <<>>
       ELSE /\ \E j \in 1 .. Len(ConeData) : ticdat = ConeData[j]
            /\ \A j \in 1 .. Len(ConeData) : ticdat.Tmag <= ConeData[j].Tmag
            /\ Len(requests) = 1

\* the archive returned two rows and the record is not the first of them
C15_Witness ==
  /\ ConeCall /\ requests # <<>> /\ Len(ConeData) = 2
  /\ ticdat = ConeData[2] /\ ticdat.Tmag < ConeData[1].Tmag

\* the value of a sequence of at most nine decimal digits
RECURSIVE DigitsValue(_)
DigitsValue(d) == IF Len(d) = 0 THEN 0 ELSE DigitsValue(SubSeq(d, 1, Len(d) - 1)) * 10 + d[Len(d)]

\* the integer a decimal string denotes, as limbs to the base 10^9
RECURSIVE ParseDecimal(_)
ParseDecimal(d) ==
  IF Len(d) <= 9 THEN <<DigitsValue(d)>>
  ELSE Append(ParseDecimal(SubSeq(d, 1, Len(d) - 9)), DigitsValue(SubSeq(d, Len(d) - 8, Len(d))))

\* the filter value of the i-th request
FilterValue(i) == requests[i].body.params.filters[1].values

\* C17: the filter value of every request of an identifier search is the
\* decimal string of the identifier: digits only (no sign, no fractional
\* part), no leading zero, denoting exactly the identifier also at and above
\* 2^32, and the same string on every polling iteration.
C17_ExactDecimal ==
  IdCall =>
    \A i \in 1 .. Len(requests) :
      /\ requests[i].body.service = "Mast.Catalogs.Filtered.Tic"
      /\ Len(FilterValue(i)) >= 1
      /\ \A k \in 1 .. Len(FilterValue(i)) : FilterValue(i)[k] \in 0 .. 9
      /\ Len(FilterValue(i)) > 1 => FilterValue(i)[1] # 0
      /\ ParseDecimal(FilterValue(i)) = args.tic
      /\ FilterValue(i) = FilterValue(1)

\* the identifier 2^32 polled twice: '4294967296' both times
C17_Witness ==
  /\ IdCall /\ args.tic = <<4, 294967296>> /\ Len(requests) >= 2
  /\ FilterValue(2) = <<4, 2, 9, 4, 9, 6, 7, 2, 9, 6>>

\* ---------------------------------------------------------------------
\* mastQuery on direct and proxied connections
\* ---------------------------------------------------------------------
\* user names and passwords of a proxy URI, as byte values: none, "user",
\* "u", "ab"; none, "pass", "["
UserNames == {<<>>, <<117, 115, 101, 114>>, <<117>>, <<97, 98>>}

Passwords == {<<>>, <<112, 97, 115, 115>>, <<91>>}

ProxyUris ==
  {None} \cup {[hostname |-> "proxy.example.org", port |-> 3128, username |-> u, password |-> w] :
                 u \in UserNames, w \in Passwords}

QueryRequests == {ConeRequest(c) : c \in Targets} \cup {IdRequest(t) : t \in TicIds}

\* a caller is about to run mastQuery(request, proxy_uri)
InitQuery ==
  /\ pc = "query"
  /\ args \in [request : QueryRequests, proxy_uri : ProxyUris]
  /\ coord = None /\ tic = None /\ scinfo = None /\ ticdat = None
  /\ idxSec = 0 /\ findAny = FALSE /\ sects = <<>>
  /\ ret = None /\ requests = <<>> /\ responses = <<>> /\ pixCalls = <<>> /\ stdout = <<>>
  /\ TSPD = ClassTables
  /\ parm_dict_list = Arr4(<<>>, <<>>, <<>>, <<>>)
  /\ fs = NoFiles
  /\ cat = None /\ fpg = None /\ pix = None

\* lines 854-893
ApplyMastQuery ==
  /\ pc = "query"
  /\ requests' = Append(requests, mastQuery(args.request, args.proxy_uri))
  /\ pc' = "idle"
  /\ UNCHANGED <<args, coord, tic, scinfo, ticdat, idxSec, findAny, sects, ret, responses,
                 pixCalls, stdout, TSPD, parm_dict_list, fs, cat, fpg, pix>>

SpecQuery == InitQuery /\ [][ApplyMastQuery]_vars

\* the call of mastQuery has run
Queried == pc = "idle" /\ requests # <<>>

\* the URI carries a user name and a password
HasCredentials(p) == p # None /\ p.username # <<>> /\ p.password # <<>>

\* 'Basic ' followed by the base64 encoding of user:password
BasicOf(p) == <<"B", "a", "s", "i", "c", " ">> \o b64encode(p.username \o <<58>> \o p.password)

C16_HeaderPresence ==
  Queried =>
    /\ Len(requests) = 1
    /\ requests[1].method = "POST" /\ requests[1].url = "/api/v0/invoke"
    /\ args.proxy_uri = None =>
         requests[1].connect = <<"mast.stsci.edu">> /\ requests[1].tunnel = None
    /\ args.proxy_uri # None =>
         /\ requests[1].tunnel # None
         /\ ("Proxy-Authorization" \in DOMAIN requests[1].tunnel.headers)
              = HasCredentials(args.proxy_uri)

\* ---------------------------------------------------------------------
\* Two Levine_FPG constructions in two threads
\* ---------------------------------------------------------------------
\* In this specification pc, args, fpg and ret hold one value per thread:
\* the position of the thread in __init__, the arguments of its constructor
\* call, the object it is constructing and the outcome of the call.  The
\* class attribute parm_dict_list and the files are the ones both threads see.
Threads == {"A", "B"}

\* the arrays of lines 189-199
ZeroModel ==
  [eulcam |-> CamArr(LAMBDA icam : Arr3(0, 0, 0)),
   optcon |-> CamArr(LAMBDA icam : Arr6(0, 0, 0, 0, 0, 0)),
   ccdxy0 |-> CamArr(LAMBDA icam : CcdArr(LAMBDA iccd : Arr2(0, 0))),
   pixsz |-> CamArr(LAMBDA icam : CcdArr(LAMBDA iccd : Arr2(0, 0))),
   ccdang |-> CamArr(LAMBDA icam : CcdArr(LAMBDA iccd : 0)),
   ccdtilt |-> CamArr(LAMBDA icam : CcdArr(LAMBDA iccd : Arr2(0, 0))),
   asymang |-> CamArr(LAMBDA icam : 0),
   asymfac |-> CamArr(LAMBDA icam : 0),
   rmat1 |-> Zeros33,
   rmat4 |-> CamArr(LAMBDA icam : Zeros33),
   havePointing |-> FALSE]

\* the calibration sources of the two constructions: complete tables, absent
\* and unreadable files
PairLists ==
  {None,
   Arr4("cam.txt", "cam.txt", "cam.txt", "cam.txt"),
   Arr4("cam.txt", "fpg_pars.txt-", "bad.txt", "cam.txt")}

PairBoresights == {None, Arr3(TESS_ras[1], TESS_decs[1], TESS_rolls[1])}

\* both threads have run lines 189-199 of their constructor call; the two
\* calls name different file lists
InitPair ==
  /\ pc = [t \in Threads |-> [at |-> "read", icam |-> 0]]
  /\ args \in {[t \in Threads |-> [sc_ra_dec_roll |-> q[3],
                                    fpg_file_list |-> IF t = "A" THEN q[1] ELSE q[2]]] :
                 q \in {x \in PairLists \X PairLists \X PairBoresights : x[1] # x[2]}}
  /\ fpg = [t \in Threads |-> ZeroModel]
  /\ ret = [t \in Threads |-> None]
  /\ coord = None /\ tic = None /\ scinfo = None /\ ticdat = None
  /\ idxSec = 0 /\ findAny = FALSE /\ sects = <<>>
  /\ requests = <<>> /\ responses = <<>> /\ pixCalls = <<>> /\ stdout = <<>>
  /\ TSPD = ClassTables
  /\ parm_dict_list = Arr4(<<>>, <<>>, <<>>, <<>>)
  /\ fs \in {NoFiles, MixedFiles}
  /\ cat = None /\ pix = None

\* thread t runs one iteration of the first loop of read_all_levine_fpg_files
\* (lines 219-224): read_levine_fpg_file stores the camera's dictionary in the
\* class-level list
ReadStep(t) ==
  /\ pc[t].at = "read"
  /\ \E icam \in {pc[t].icam} :
     \E r \in {read_levine_fpg_file(parm_dict_list, fs, icam,
                                    FileOf(args[t].fpg_file_list, icam))} :
         /\ parm_dict_list' = r.pdl
         /\ stdout' = stdout \o r.out
         /\ pc' = [pc EXCEPT ![t] = IF icam = NCAM - 1 THEN [at |-> "parse", icam |-> 0]
                                    ELSE [at |-> "read", icam |-> icam + 1]]
  /\ UNCHANGED <<args, coord, tic, scinfo, ticdat, idxSec, findAny, sects, ret, requests,
                 responses, pixCalls, TSPD, fs, cat, fpg, pix>>

\* thread t runs one iteration of the second loop (lines 227-247): the
\* camera's dictionary is taken from the class-level list and parsed into the
\* arrays of the thread's object
ParseStep(t) ==
  /\ pc[t].at = "parse"
  /\ \E icam \in {pc[t].icam} :
     \E pd \in {parm_dict_list[icam]} :
       IF ~(RequiredKeys \subseteq DOMAIN pd)
       THEN /\ ret' = [ret EXCEPT ![t] = Raised("Levine_FPG", "KeyError")]
            /\ pc' = [pc EXCEPT ![t] = [at |-> "done", icam |-> icam]]
            /\ UNCHANGED fpg
       ELSE /\ fpg' = [fpg EXCEPT
                 ![t].eulcam[icam] = Arr3(pd["ang1_cam1"], pd["ang2_cam1"], pd["ang3_cam1"]),
                 ![t].optcon[icam] = Arr6(pd["fl_cam1"], pd["opt_coef1_cam1"],
                                          pd["opt_coef2_cam1"], pd["opt_coef3_cam1"],
                                          pd["opt_coef4_cam1"], pd["opt_coef5_cam1"]),
                 ![t].asymang[icam] = pd["asymang_cam1"],
                 ![t].asymfac[icam] = pd["asymfac_cam1"],
                 ![t].ccdxy0[icam] = CcdArr(LAMBDA iccd :
                      Arr2(pd[CcdKey("x0", iccd)], pd[CcdKey("y0", iccd)])),
                 ![t].pixsz[icam] = CcdArr(LAMBDA iccd :
                      Arr2(pd[CcdKey("pix_x", iccd)], pd[CcdKey("pix_y", iccd)])),
                 ![t].ccdang[icam] = CcdArr(LAMBDA iccd : pd[CcdKey("ang", iccd)]),
                 ![t].ccdtilt[icam] = CcdArr(LAMBDA iccd :
                      Arr2(pd[CcdKey("tilt_x", iccd)], pd[CcdKey("tilt_y", iccd)]))]
            /\ pc' = [pc EXCEPT ![t] = IF icam = NCAM - 1 THEN [at |-> "pointing", icam |-> 0]
                                       ELSE [at |-> "parse", icam |-> icam + 1]]
            /\ UNCHANGED ret
  /\ UNCHANGED <<args, coord, tic, scinfo, ticdat, idxSec, findAny, sects, requests,
                 responses, pixCalls, stdout, TSPD, parm_dict_list, fs, cat, pix>>

\* thread t runs lines 203-211 and its constructor call returns
PointStep(t) ==
  /\ pc[t].at = "pointing"
  /\ \E b \in {args[t].sc_ra_dec_roll} :
       IF b # None
       THEN \E rmat1 \in {sky_to_sc_mat(b)} :
              fpg' = [fpg EXCEPT
                ![t].rmat1 = rmat1,
                ![t].rmat4 = CamArr(LAMBDA icam :
                               matmul(sc_to_cam_mat(fpg[t].eulcam[icam]), rmat1)),
                ![t].havePointing = TRUE]
       ELSE UNCHANGED fpg
  /\ ret' = [ret EXCEPT ![t] = Returned("Levine_FPG", args[t])]
  /\ pc' = [pc EXCEPT ![t] = [at |-> "done", icam |-> 0]]
  /\ UNCHANGED <<args, coord, tic, scinfo, ticdat, idxSec, findAny, sects, requests,
                 responses, pixCalls, stdout, TSPD, parm_dict_list, fs, cat, pix>>

NextPair == \E t \in Threads : ReadStep(t) \/ ParseStep(t) \/ PointStep(t)

SpecPair == InitPair /\ [][NextPair]_vars

\* C13: when two models are constructed from different calibration sources
\* with their construction steps interleaved, each returned object holds for
\* every camera the parameters of its own source.
C13_OwnCalibration ==
  \A t \in Threads :
    (pc[t].at = "done" /\ ret[t].kind = "return") =>
      \A icam \in Cams : HoldsParms(fpg[t], icam, SourceParms(fs, args[t].fpg_file_list, icam))


\* ---------------------------------------------------------------------
\* The pixel mapping on focal plane points
\* ---------------------------------------------------------------------
\* focal plane coordinates (mm * S) on both sides of 0 and on it
PixCoords == {-25000000, -1, 0, 1, 25000000}

FocalPoints == {Arr2(x, y) : x \in PixCoords, y \in PixCoords}

\* models with the hard-coded tables and with the tables of a file
PixModels == {Levine_FPG(Arr4(<<>>, <<>>, <<>>, <<>>), files, None, None).obj :
                files \in {NoFiles, WithFiles}}

\* a caller holds a model and is about to map the point xy of camera icam,
\* with mm_to_pix and with mm_to_pix_single_ccd on CCD iccd
InitPix ==
  /\ pc = "pixel"
  /\ fpg \in PixModels
  /\ args \in [icam : Cams, xy : FocalPoints, iccd : Ccds]
  /\ coord = None /\ tic = None /\ scinfo = None /\ ticdat = None
  /\ idxSec = 0 /\ findAny = FALSE /\ sects = <<>>
  /\ ret = None /\ requests = <<>> /\ responses = <<>> /\ pixCalls = <<>> /\ stdout = <<>>
  /\ TSPD = ClassTables
  /\ parm_dict_list = Arr4(<<>>, <<>>, <<>>, <<>>)
  /\ fs = NoFiles
  /\ cat = None /\ pix = None

\* lines 561-613 and lines 615-661 on the same point
ApplyMmToPix ==
  /\ pc = "pixel"
  /\ pix' = [full |-> mm_to_pix(fpg, args.icam, args.xy),
             single |-> mm_to_pix_single_ccd(fpg, args.icam, args.xy, args.iccd)]
  /\ pc' = "idle"
  /\ UNCHANGED <<args, coord, tic, scinfo, ticdat, idxSec, findAny, sects, ret, requests,
                 responses, pixCalls, stdout, TSPD, parm_dict_list, fs, cat, fpg>>

SpecPix == InitPix /\ [][ApplyMmToPix]_vars

\* the two mappings have run
Mapped == pc = "idle" /\ pix # None

\* the quadrant cases of the claim that hold of a point, by CCD index
QuadrantCases(xy) ==
  {c \in 0 .. 3 :
     CASE c = 0 -> xy[0] >= 0 /\ xy[1] >= 0
       [] c = 1 -> xy[0] < 0 /\ xy[1] >= 0
       [] c = 2 -> xy[0] < 0 /\ xy[1] < 0
       [] c = 3 -> xy[0] >= 0 /\ xy[1] < 0}

\* C18: mm_to_pix selects CCD 0 for x >= 0, y >= 0, CCD 1 for x < 0, y >= 0,
\* CCD 2 for x < 0, y < 0 and CCD 3 for x >= 0, y < 0: exactly one case holds
\* of every point, 0 counting as positive, and the index is the one of that
\* case for every camera and every model.
C18_Quadrant ==
  Mapped =>
    /\ Cardinality(QuadrantCases(args.xy)) = 1
    /\ pix.full.iccd \in 0 .. 3
    /\ QuadrantCases(args.xy) = {pix.full.iccd}

\* a point on the positive x axis just below it: CCD 3; handled as y = 0 is
\* by CCD 0
C18_Witness ==
  /\ Mapped /\ args.xy = Arr2(0, -1) /\ pix.full.iccd = 3

\* C19: the FITS position is (4227 - ccdX, 4155 - ccdY) on CCD 0,
\* (2091 - ccdX, 4155 - ccdY) on CCD 1, (ccdX + 44, ccdY) on CCD 2 and
\* (ccdX + 2180, ccdY) on CCD 3.
C19_FitsPosition ==
  Mapped =>
    pix.full.fitpx =
      CASE pix.full.iccd = 0 -> Arr2(4227 * PX - pix.full.ccdpx[0], 4155 * PX - pix.full.ccdpx[1])
        [] pix.full.iccd = 1 -> Arr2(2091 * PX - pix.full.ccdpx[0], 4155 * PX - pix.full.ccdpx[1])
        [] pix.full.iccd = 2 -> Arr2(pix.full.ccdpx[0] + 44 * PX, pix.full.ccdpx[1])
        [] pix.full.iccd = 3 -> Arr2(pix.full.ccdpx[0] + 2180 * PX, pix.full.ccdpx[1])

\* a point of CCD 3 with a CCD-local position off the pixel grid
C19_Witness ==
  /\ Mapped /\ pix.full.iccd = 3 /\ pix.full.ccdpx[0] % PX # 0
  /\ pix.full.fitpx[0] = pix.full.ccdpx[0] + 2180 * PX

\* C20: mm_to_pix_single_ccd on the CCD that mm_to_pix selects returns the
\* CCD-local and FITS positions mm_to_pix returns; on any CCD it returns the
\* positions of mm_to_pix's formulas for that CCD.
C20_SingleCcd ==
  Mapped =>
    /\ args.iccd = pix.full.iccd =>
         pix.single.ccdpx = pix.full.ccdpx /\ pix.single.fitpx = pix.full.fitpx
    /\ pix.single.ccdpx = CcdPx(fpg, args.icam, args.iccd, args.xy)
    /\ pix.single.fitpx = FitPx(args.iccd, pix.single.ccdpx)

\* the explicit CCD is the selected one, CCD 1
C20_Witness ==
  /\ Mapped /\ args.iccd = 1 /\ pix.full.iccd = 1
  /\ pix.single.fitpx = pix.full.fitpx


\* ---------------------------------------------------------------------
\* Models that are given a boresight, at construction and afterwards
\* ---------------------------------------------------------------------
\* boresights supplied to a model: the pointings of five sectors
NewBoresights ==
  {Arr3(TESS_ras[k], TESS_decs[k], TESS_rolls[k]) : k \in {1, 5, 14, 28, 39}}

NextPoint ==
  \/ \E b \in Boresights, fl \in FileLists : NewFPG(b, fl)
  \/ \E b \in NewBoresights : CallSkyToScMat(b)
  \/ \E tl \in TargetLists : CallRadec2pix(tl)
  \/ Discard

SpecPoint == Init /\ [][NextPoint]_vars

\* the last call on the model the caller holds supplied a boresight
BoresightSupplied ==
  /\ pc = "idle" /\ fpg # None /\ ret # None
  /\ \/ ret.call = "Levine_FPG" /\ ret.value.sc_ra_dec_roll # None
     \/ ret.call = "sky_to_sc_mat"

\* every sky-to-camera matrix is the camera's matrix times rmat1
Consistent(obj) ==
  \A icam \in Cams : obj.rmat4[icam] = matmul(sc_to_cam_mat(obj.eulcam[icam]), obj.rmat1)

\* C21: after the constructor with a boresight, and after sky_to_sc_mat on an
\* existing model, rmat4[i] = sc_to_cam_mat(eulcam[i]) * rmat1 for the four
\* cameras and havePointing is true.
C21_MatricesConsistent ==
  BoresightSupplied => Consistent(fpg) /\ fpg.havePointing

\* C21, constructor only: a model constructed with a boresight has consistent
\* matrices and havePointing true
C21_Constructor ==
  (BoresightSupplied /\ ret.call = "Levine_FPG") => Consistent(fpg) /\ fpg.havePointing


\* ---------------------------------------------------------------------
\* The field of view test, on camera-frame angles and inside radec2pix
\* ---------------------------------------------------------------------
\* camera-frame longitudes and latitudes (degrees * S): below, on and above
\* the 70 degree gate, and on and around the 12.5 degree square
FovLngs == {0, 45000000, 90000000, 180000000, 270000000}

FovLats == {-10000000, 0, 69900000, 70000000, 73538200, 77500000, 80000000, 90000000}

\* pointed models with the hard-coded tables
FovModels ==
  {Levine_FPG(Arr4(<<>>, <<>>, <<>>, <<>>), NoFiles, b, None).obj : b \in Boresights \ {None}}

\* a caller holds a pointed model and is about to test the camera-frame angles
\* (lng, lat) and then to map one target
InitFov ==
  /\ pc = "fov"
  /\ fpg \in FovModels
  /\ args \in [lng : FovLngs, lat : FovLats, target : Targets]
  /\ coord = None /\ tic = None /\ scinfo = None /\ ticdat = None
  /\ idxSec = 0 /\ findAny = FALSE /\ sects = <<>>
  /\ ret = None /\ requests = <<>> /\ responses = <<>> /\ pixCalls = <<>> /\ stdout = <<>>
  /\ TSPD = ClassTables
  /\ parm_dict_list = Arr4(<<>>, <<>>, <<>>, <<>>)
  /\ fs = NoFiles
  /\ cat = None /\ pix = None

\* star_in_fov(lng, lat) (lines 514-527)
ApplyStarInFov ==
  /\ pc = "fov"
  /\ ret' = Returned("star_in_fov", star_in_fov(deg2rad(args.lng), deg2rad(args.lat)))
  /\ pc' = "map"
  /\ UNCHANGED <<args, coord, tic, scinfo, ticdat, idxSec, findAny, sects, requests,
                 responses, pixCalls, stdout, TSPD, parm_dict_list, fs, cat, fpg, pix>>

\* radec2pix on the one target (lines 663-702)
MapTarget ==
  /\ pc = "map"
  /\ pix' = [targets |-> <<args.target>>,
             res |-> radec2pix(fpg, <<args.target.ra>>, <<args.target.dec>>).res]
  /\ pc' = "idle"
  /\ UNCHANGED <<args, coord, tic, scinfo, ticdat, idxSec, findAny, sects, ret, requests,
                 responses, pixCalls, stdout, TSPD, parm_dict_list, fs, cat, fpg>>

NextFov == ApplyStarInFov \/ MapTarget

SpecFov == InitFov /\ [][NextFov]_vars

\* both projections of the direction (lng, lat) are at most 12.5 degrees:
\* |x/z| <= tan(12.5 deg), cross-multiplied; tol is the slack allowed
\* (positive) or the margin required (negative)
ProjWithin(lng, lat, tol) ==
  LET lim == deg2rad(12500000)
      x == MulS(deg2rad(lng).c, deg2rad(lat).c)
      y == MulS(deg2rad(lng).s, deg2rad(lat).c)
      z == deg2rad(lat).s
  IN  /\ z > 0
      /\ MulS(Abs(x), lim.c) <= MulS(z, lim.s) + tol
      /\ MulS(Abs(y), lim.c) <= MulS(z, lim.s) + tol

\* the camera-frame direction of target t in camera j
CamSph(self, t, j) == cartToSphere(matvec(self.rmat4[j], sphereToCart(t.ra, t.dec)))

\* the result of radec2pix has a row of camera j (base 0)
FovSeen(j) == \E k \in 1 .. Len(pix.res.inCamera) : pix.res.inCamera[k] = j + 1

\* C22: star_in_fov is false for every latitude <= 70 degrees whatever the
\* longitude; it is true only for a latitude above 70 degrees with both
\* projections at most 12.5 degrees (up to the rounding of the arithmetic),
\* and it is true of the directions well inside that square; radec2pix has no
\* row for a camera whose star_in_fov result is false, so none for a
\* camera-frame latitude <= 70 degrees.
C22_FieldOfView ==
  /\ pc \in {"map", "idle"} =>
       /\ args.lat <= 70 * S => ret.value = FALSE
       /\ ret.value = TRUE => args.lat > 70 * S /\ ProjWithin(args.lng, args.lat, 2)
       /\ (args.lat > 70 * S /\ ProjWithin(args.lng, args.lat, -B)) => ret.value = TRUE
  /\ (pc = "idle" /\ pix # None) =>
       \A j \in Cams :
         With(CamSph(fpg, args.target, j), LAMBDA sph :
           /\ ~star_in_fov(sph.ra, sph.dec) => ~FovSeen(j)
           /\ sph.dec.s <= deg2rad(70000000).s => ~FovSeen(j))

\* a direction inside the square is in view, and the target mapped afterwards
\* has a row for one camera and none for another
C22_Witness ==
  /\ pc = "idle" /\ pix # None
  /\ args.lat = 80000000 /\ args.lng = 45000000 /\ ret.value = TRUE
  /\ \E j \in Cams : FovSeen(j)
  /\ \E j \in Cams : ~FovSeen(j)

\* ---------------------------------------------------------------------
\* A caller that constructs several catalogs and keeps them
\* ---------------------------------------------------------------------
\* the trySector arguments: none, sectors of the table, and values outside it
CatSectors == {None, <<5>>, <<39>>, <<40>>}

\* bound on the number of catalogs the caller constructs
MaxCats == 3

\* the caller holds, in cat, the catalogs constructed so far with their
\* trySector arguments, in the order of construction
ConstructCatalog(trySector) ==
  /\ pc = "idle" /\ Len(cat) < MaxCats
  /\ \E r \in {TESS_Spacecraft_Pointing_Data(TSPD, parm_dict_list, fs, trySector, None)} :
         /\ TSPD' = r.cls
         /\ parm_dict_list' = r.pdl
         /\ stdout' = r.out
         /\ cat' = Append(cat, [trySector |-> trySector, obj |-> r.obj])
         /\ ret' = IF r.exc # NoExc THEN Raised("TESS_Spacecraft_Pointing_Data", r.exc)
                   ELSE Returned("TESS_Spacecraft_Pointing_Data",
                                 [trySector |-> trySector, solverCalls |-> r.solverCalls])
  /\ ResetLocals
  /\ UNCHANGED <<pc, fs, fpg, pix>>

SpecCat == Init /\ [][\E t \in CatSectors : ConstructCatalog(t)]_vars

\* C23: after any sequence of catalog constructions with any trySector, the
\* class-level sectors, ras, decs and rolls are the tables of the 39 sectors,
\* and every unrestricted catalog, whatever was constructed before it, holds
\* the 39 sectors with their pointings and 39 models.
C23_ClassTablesKept ==
  /\ Len(TSPD.sectors) = 39
  /\ TSPD.sectors = TESS_sectors /\ TSPD.ras = TESS_ras
  /\ TSPD.decs = TESS_decs /\ TSPD.rolls = TESS_rolls
  /\ \A i \in 1 .. Len(cat) :
       cat[i].trySector = None =>
         /\ cat[i].obj # None
         /\ cat[i].obj.sectors = TESS_sectors /\ cat[i].obj.ras = TESS_ras
         /\ cat[i].obj.decs = TESS_decs /\ cat[i].obj.rolls = TESS_rolls
         /\ Len(cat[i].obj.fpgObjs) = 39

\* a catalog of sector 5 alone, then one of no sector, then an unrestricted
\* one of 39 sectors
C23_Witness ==
  /\ Len(cat) = 3
  /\ cat[1].trySector = <<5>> /\ cat[1].obj.sectors = <<5>>
  /\ cat[2].trySector = <<40>> /\ cat[2].obj.sectors = <<>>
  /\ cat[3].trySector = None /\ Len(cat[3].obj.sectors) = 39
  /\ Len(cat[3].obj.fpgObjs) = 39


\* ---------------------------------------------------------------------
\* Catalogs of a sector that is not in the table
\* ---------------------------------------------------------------------
\* C24: constructing a catalog with trySector 0 or 40, with any file list,
\* raises nothing and returns a catalog with no sector, no pointing, four
\* empty rows of camera boresights and no model, without a call of
\* get_radec_from_posangsep.
C24_UnknownSector ==
  [][ \A t \in {<<0>>, <<40>>}, fl \in FileLists :
        NewCatalog(t, fl) =>
          /\ ret'.kind = "return"
          /\ cat' # None
          /\ cat'.sectors = <<>> /\ cat'.ras = <<>> /\ cat'.decs = <<>> /\ cat'.rolls = <<>>
          /\ \A iCam \in Cams : cat'.camRa[iCam] = <<>> /\ cat'.camDec[iCam] = <<>>
          /\ cat'.fpgObjs = <<>>
          /\ ret'.value.solverCalls = 0 ]_vars

\* the catalog of sector 40 has been constructed, where the calibration files
\* include one that a model could not be built from
C24_Witness ==
  /\ CatBuilt /\ ret.value.trySector = <<40>>
  /\ cat.sectors = <<>> /\ cat.fpgObjs = <<>> /\ ret.value.solverCalls = 0
  /\ fs = MixedFiles

=============================================================================
